---- MODULE Spec2Model ----
(***************************************************************************)
(* A model of proxy.py (src/proxy.py): the HTTP parser and chunked parser, *)
(* the per-connection ProtocolHandler with the HttpProxyPlugin core        *)
(* plugin, and the threaded / threadless workers that own the handlers.    *)
(*                                                                         *)
(* Bytes are sequences of one-character strings.  Python's None is the     *)
(* sequence None for an Optional[bytes] and the empty sequence for an      *)
(* Optional[int] (a present integer n is <<n>>).                           *)
(***************************************************************************)
EXTENDS Integers, Sequences, FiniteSets, TLC

VARIABLES
    pstream,    \* parser harness: the byte stream being fed
    pfed,       \* parser harness: number of bytes of pstream fed so far
    pparser,    \* parser harness: the HttpParser fed piece by piece
    scen,       \* connection: the configuration and the peers' behaviour
    h,          \* connection: the ProtocolHandler with its HttpProxyPlugin
    io,         \* connection: what the sockets have carried so far
    log,        \* connection: history of hook calls and forwarded requests
    mode,       \* worker: "threaded" (a thread per handler) or "threadless"
    works,      \* worker: the handlers it owns, by work id
    worker,     \* worker: "running", or "crashed" once an exception unwound it
    pending,    \* worker: task results Threadless.wait_for_tasks has yet to handle
    acc,        \* acceptors: the Acceptor processes, their lock and the listening socket
    tl,         \* threadless: the Threadless process fed by its Acceptor's pipe
    fn,         \* a function of the program under test: its input and its result
    gen         \* certificates: the threads in generate_upstream_certificate, the lock, the files

pvars == <<pstream, pfed, pparser>>
hvars == <<scen, h, io, log>>
wvars == <<mode, works, worker, pending>>
xvars == <<acc, tl, fn, gen>>
vars == <<pvars, hvars, wvars, xvars>>

----------------------------------------------------------------------------
(* Byte strings *)

None == <<"<None>">>
NoInt == <<>>
CRLF == <<"\r", "\n">>
COLON == ":"
WHITESPACE == " "
HTTP_1_1 == <<"H", "T", "T", "P", "/", "1", ".", "1">>

\* F(v): names a value that a definition uses in several places (a local
\* variable of the code)
Let(v, F(_)) == F(v)

MinOf(S) == CHOOSE x \in S : \A y \in S : x <= y

\* raw[:n]
SliceTo(raw, n) ==
    IF n >= 0 THEN SubSeq(raw, 1, IF n < Len(raw) THEN n ELSE Len(raw))
    ELSE SubSeq(raw, 1, IF Len(raw) + n > 0 THEN Len(raw) + n ELSE 0)

\* raw[n:]
SliceFrom(raw, n) ==
    IF n >= 0 THEN SubSeq(raw, n + 1, Len(raw))
    ELSE SubSeq(raw, (IF Len(raw) + n > 0 THEN Len(raw) + n ELSE 0) + 1, Len(raw))

\* raw.find(pat): the 1-based position of the first occurrence, 0 when absent
Find(raw, pat) ==
    LET idx == {i \in 1..(Len(raw) - Len(pat) + 1) : SubSeq(raw, i, i + Len(pat) - 1) = pat}
    IN  IF idx = {} THEN 0 ELSE MinOf(idx)

EndsWith(raw, pat) ==
    /\ Len(raw) >= Len(pat)
    /\ SubSeq(raw, Len(raw) - Len(pat) + 1, Len(raw)) = pat

StartsWith(raw, pat) ==
    /\ Len(raw) >= Len(pat)
    /\ SubSeq(raw, 1, Len(pat)) = pat

\* raw.split(sep) for a one-byte separator: empty pieces are kept
RECURSIVE Split(_, _)
Split(raw, sep) ==
    LET idx == {i \in 1..Len(raw) : raw[i] = sep}
    IN  IF idx = {} THEN <<raw>>
        ELSE <<SubSeq(raw, 1, MinOf(idx) - 1)>> \o Split(SubSeq(raw, MinOf(idx) + 1, Len(raw)), sep)

\* sep.join(parts)
RECURSIVE Join(_, _)
Join(parts, sep) ==
    IF Len(parts) = 0 THEN <<>>
    ELSE IF Len(parts) = 1 THEN parts[1]
    ELSE parts[1] \o sep \o Join(Tail(parts), sep)

SpaceBytes == {" ", "\t", "\n", "\r", "\f"}

\* raw.strip()
Strip(raw) ==
    LET keep == {i \in 1..Len(raw) : raw[i] \notin SpaceBytes}
    IN  IF keep = {} THEN <<>>
        ELSE SubSeq(raw, MinOf(keep), CHOOSE j \in keep : \A k \in keep : k <= j)

UpperLetters == <<"A", "B", "C", "D", "E", "F", "G", "H", "I", "J", "K", "L", "M",
                  "N", "O", "P", "Q", "R", "S", "T", "U", "V", "W", "X", "Y", "Z">>
LowerLetters == <<"a", "b", "c", "d", "e", "f", "g", "h", "i", "j", "k", "l", "m",
                  "n", "o", "p", "q", "r", "s", "t", "u", "v", "w", "x", "y", "z">>

LowerByte(c) ==
    IF \E i \in 1..26 : UpperLetters[i] = c
    THEN LowerLetters[CHOOSE i \in 1..26 : UpperLetters[i] = c] ELSE c
UpperByte(c) ==
    IF \E i \in 1..26 : LowerLetters[i] = c
    THEN UpperLetters[CHOOSE i \in 1..26 : LowerLetters[i] = c] ELSE c

\* raw.lower(), raw.upper()
Lower(raw) == [i \in 1..Len(raw) |-> LowerByte(raw[i])]
Upper(raw) == [i \in 1..Len(raw) |-> UpperByte(raw[i])]

HexDigits == <<"0", "1", "2", "3", "4", "5", "6", "7", "8", "9", "a", "b", "c", "d", "e", "f">>
DigitVal(c) == (CHOOSE i \in 1..16 : HexDigits[i] = LowerByte(c)) - 1
IsDigit(c, base) == \E i \in 1..base : HexDigits[i] = LowerByte(c)

RECURSIVE DigitsVal(_, _)
DigitsVal(ds, base) ==
    IF Len(ds) = 0 THEN 0
    ELSE DigitsVal(SubSeq(ds, 1, Len(ds) - 1), base) * base + DigitVal(ds[Len(ds)])

\* int(raw, base): surrounding whitespace and one sign are accepted; anything
\* else that is not a digit of the base raises ValueError (ok = FALSE)
ParseInt(raw, base) ==
    Let(Strip(raw), LAMBDA s :
    Let(IF Len(s) > 0 /\ s[1] \in {"+", "-"} THEN Tail(s) ELSE s, LAMBDA ds :
        IF Len(ds) > 0 /\ \A i \in 1..Len(ds) : IsDigit(ds[i], base)
        THEN [ok |-> TRUE,
              v |-> IF s[1] = "-" THEN 0 - DigitsVal(ds, base) ELSE DigitsVal(ds, base)]
        ELSE [ok |-> FALSE, v |-> 0]))

RECURSIVE ToDigits(_, _)
ToDigits(n, base) ==
    IF n < base THEN <<HexDigits[n + 1]>>
    ELSE ToDigits(n \div base, base) \o <<HexDigits[(n % base) + 1]>>

\* bytes_(n) for an int n >= 0 and '{:x}'.format(n)
bytes_(n) == ToDigits(n, 10)
FormatHex(n) == ToDigits(n, 16)

find_http_line(raw) ==
    LET pos == Find(raw, CRLF)
    IN  IF pos = 0 THEN [line |-> None, rest |-> raw]
        ELSE [line |-> SubSeq(raw, 1, pos - 1), rest |-> SubSeq(raw, pos + Len(CRLF), Len(raw))]

----------------------------------------------------------------------------
(* ChunkParser *)

WAITING_FOR_SIZE == 1
WAITING_FOR_DATA == 2
CHUNK_COMPLETE == 3

\* ChunkParser.__init__ (live: the HttpParser holds a ChunkParser object)
NewChunkParser(live) ==
    [live |-> live, state |-> WAITING_FOR_SIZE, body |-> <<>>, chunk |-> <<>>,
     size |-> NoInt, exc |-> "ok"]

\* ChunkParser.process: one step; the result carries (more, raw)
ChunkParser_process(cp, raw) ==
    IF cp.state = WAITING_FOR_SIZE THEN
        Let(find_http_line(cp.chunk \o raw), LAMBDA fl :
            IF fl.line = None \/ Strip(fl.line) = <<>>
            THEN [cp |-> [cp EXCEPT !.chunk = fl.rest], more |-> FALSE, raw |-> <<>>]
            ELSE Let(ParseInt(fl.line, 16), LAMBDA n :
                 IF ~n.ok
                 THEN [cp |-> [cp EXCEPT !.chunk = <<>>, !.exc = "ValueError"],
                       more |-> FALSE, raw |-> fl.rest]
                 ELSE [cp |-> [cp EXCEPT !.chunk = <<>>, !.size = <<n.v>>,
                                        !.state = WAITING_FOR_DATA],
                       more |-> Len(fl.rest) > 0, raw |-> fl.rest]))
    ELSE IF cp.state = WAITING_FOR_DATA THEN
        Let(cp.size[1] - Len(cp.chunk), LAMBDA remaining :
        Let(cp.chunk \o SliceTo(raw, remaining), LAMBDA chunk :
        Let(SliceFrom(raw, remaining), LAMBDA raw1 :
            IF Len(chunk) = cp.size[1]
            THEN Let(SliceFrom(raw1, Len(CRLF)), LAMBDA raw2 :
                     [cp |-> [cp EXCEPT !.body = cp.body \o chunk,
                                       !.state = IF cp.size[1] = 0 THEN CHUNK_COMPLETE
                                                 ELSE WAITING_FOR_SIZE,
                                       !.chunk = <<>>, !.size = NoInt],
                      more |-> Len(raw2) > 0, raw |-> raw2])
            ELSE [cp |-> [cp EXCEPT !.chunk = chunk], more |-> Len(raw1) > 0, raw |-> raw1])))
    ELSE [cp |-> cp, more |-> Len(raw) > 0, raw |-> raw]

RECURSIVE ChunkParser_loop(_, _, _)
ChunkParser_loop(cp, raw, more) ==
    IF ~more \/ cp.state = CHUNK_COMPLETE \/ cp.exc # "ok" THEN [cp |-> cp, raw |-> raw]
    ELSE Let(ChunkParser_process(cp, raw), LAMBDA r : ChunkParser_loop(r.cp, r.raw, r.more))

\* ChunkParser.parse: the parser after the call and the bytes it returns
ChunkParser_parse(cp, raw) == ChunkParser_loop(cp, raw, Len(raw) > 0)

\* ChunkParser.to_chunks
RECURSIVE to_chunks_from(_, _)
to_chunks_from(raw, chunk_size) ==
    IF Len(raw) = 0 THEN <<>>
    ELSE LET chunk == SliceTo(raw, chunk_size)
         IN  FormatHex(Len(chunk)) \o CRLF \o chunk \o CRLF
             \o to_chunks_from(SliceFrom(raw, chunk_size), chunk_size)

\* to_chunks without the CRLF that ends the last chunk
to_chunks_unterminated(raw, chunk_size) == to_chunks_from(raw, chunk_size) \o <<"0">> \o CRLF

to_chunks(raw, chunk_size) == to_chunks_from(raw, chunk_size) \o <<"0">> \o CRLF \o CRLF

----------------------------------------------------------------------------
(* urllib.parse.urlsplit, as HttpParser.set_url and set_line_attributes use it *)

SchemeBytes == {"+", "-", "."}
IsSchemeByte(c) ==
    \/ c \in SchemeBytes
    \/ IsDigit(c, 10)
    \/ \E i \in 1..26 : LowerLetters[i] = LowerByte(c)

urlsplit(url) ==
    Let(Find(url, <<":">>), LAMBDA i :
    Let(/\ i >= 2
        /\ \A k \in 1..(i - 1) : IsSchemeByte(url[k])
        /\ \/ SubSeq(url, 1, i - 1) = <<"h", "t", "t", "p">>
           \/ i = Len(url)
           \/ \E k \in (i + 1)..Len(url) : ~IsDigit(url[k], 10), LAMBDA isScheme :
    Let(IF isScheme THEN SubSeq(url, i + 1, Len(url)) ELSE url, LAMBDA u1 :
    Let(IF StartsWith(u1, <<"/", "/">>)
        THEN MinOf({k \in 3..Len(u1) : u1[k] \in {"/", "?", "#"}} \cup {Len(u1) + 1})
        ELSE 0, LAMBDA delim :
    Let(IF delim > 0 THEN SubSeq(u1, delim, Len(u1)) ELSE u1, LAMBDA u2 :
    Let(Find(u2, <<"#">>), LAMBDA fpos :
    Let(IF fpos > 0 THEN SubSeq(u2, 1, fpos - 1) ELSE u2, LAMBDA u3 :
    Let(Find(u3, <<"?">>), LAMBDA qpos :
        [scheme   |-> IF isScheme THEN Lower(SubSeq(url, 1, i - 1)) ELSE <<>>,
         netloc   |-> IF delim > 0 THEN SubSeq(u1, 3, delim - 1) ELSE <<>>,
         path     |-> IF qpos > 0 THEN SubSeq(u3, 1, qpos - 1) ELSE u3,
         query    |-> IF qpos > 0 THEN SubSeq(u3, qpos + 1, Len(u3)) ELSE <<>>,
         fragment |-> IF fpos > 0 THEN SubSeq(u2, fpos + 1, Len(u2)) ELSE <<>>]))))))))

NoUrl == [scheme |-> None, netloc |-> None, path |-> None, query |-> None, fragment |-> None]

\* SplitResult.hostname: the lowercased host of the netloc, None when empty
url_hostname(u) ==
    Let(Find(u.netloc, <<":">>), LAMBDA c :
        IF c = 1 \/ u.netloc = <<>> THEN None
        ELSE Lower(IF c > 0 THEN SubSeq(u.netloc, 1, c - 1) ELSE u.netloc))

\* SplitResult.port: None without a port, ValueError (ok = FALSE) for a port
\* that is not a number of 0..65535
url_port(u) ==
    Let(Find(u.netloc, <<":">>), LAMBDA c :
        IF c = 0 THEN [ok |-> TRUE, v |-> NoInt]
        ELSE Let(ParseInt(SubSeq(u.netloc, c + 1, Len(u.netloc)), 10), LAMBDA n :
                 IF n.ok /\ n.v >= 0 /\ n.v <= 65535 THEN [ok |-> TRUE, v |-> <<n.v>>]
                 ELSE [ok |-> FALSE, v |-> NoInt]))

----------------------------------------------------------------------------
(* HttpParser *)

INITIALIZED == 1
LINE_RCVD == 2
RCVING_HEADERS == 3
HEADERS_COMPLETE == 4
RCVING_BODY == 5
COMPLETE == 6

REQUEST_PARSER == 1
RESPONSE_PARSER == 2

POST == <<"P", "O", "S", "T">>
CONNECT == <<"C", "O", "N", "N", "E", "C", "T">>

content_length == <<"c", "o", "n", "t", "e", "n", "t", "-", "l", "e", "n", "g", "t", "h">>
transfer_encoding == <<"t", "r", "a", "n", "s", "f", "e", "r", "-",
                       "e", "n", "c", "o", "d", "i", "n", "g">>
chunked == <<"c", "h", "u", "n", "k", "e", "d">>

\* HttpParser.__init__.  exc is how the last call on the parser ended: "ok", an
\* exception escaping to the caller, or "hang" for a call that never returns.
HttpParser(parser_type) ==
    [type |-> parser_type, state |-> INITIALIZED, bytes |-> <<>>, total_size |-> 0,
     buffer |-> <<>>, headers |-> <<>>, body |-> None, method |-> None, url |-> NoUrl,
     code |-> None, reason |-> None, version |-> None,
     chunk_parser |-> NewChunkParser(FALSE),
     host |-> None, port |-> NoInt, path |-> None, exc |-> "ok"]

\* The headers dict: a sequence of <<lowercased key, (name, value)>> entries in
\* insertion order; assigning an existing key keeps its place.
has_key(headers, key) == \E i \in 1..Len(headers) : headers[i][1] = key
key_index(headers, key) == CHOOSE i \in 1..Len(headers) : headers[i][1] = key
header_value(headers, key) == headers[key_index(headers, key)][3]

\* HttpParser.has_header, HttpParser.header (for a header that is present)
has_header(p, key) == has_key(p.headers, Lower(key))
header(p, key) == header_value(p.headers, Lower(key))

\* self.headers[key.lower()] = (key, value)
add_header(headers, key, value) ==
    IF has_key(headers, Lower(key))
    THEN [headers EXCEPT ![key_index(headers, Lower(key))] = <<Lower(key), key, value>>]
    ELSE Append(headers, <<Lower(key), key, value>>)

\* HttpParser.del_header
del_header(headers, key) ==
    IF has_key(headers, Lower(key))
    THEN SubSeq(headers, 1, key_index(headers, Lower(key)) - 1)
         \o SubSeq(headers, key_index(headers, Lower(key)) + 1, Len(headers))
    ELSE headers

RECURSIVE del_headers(_, _)
del_headers(headers, keys) ==
    IF Len(keys) = 0 THEN headers
    ELSE del_headers(del_header(headers, Lower(keys[1])), Tail(keys))

is_chunked_encoded(p) ==
    /\ has_key(p.headers, transfer_encoding)
    /\ Lower(header_value(p.headers, transfer_encoding)) = chunked

\* HttpParser.build_url
build_url(p) ==
    LET url0 == IF p.url.path = <<>> THEN <<"/">> ELSE p.url.path
        url1 == IF p.url.query # <<>> THEN url0 \o <<"?">> \o p.url.query ELSE url0
    IN  IF p.url.fragment # <<>> THEN url1 \o <<"#">> \o p.url.fragment ELSE url1

\* HttpParser.set_url with set_line_attributes (a SplitResult is never falsy)
set_url(p, url) ==
    Let(urlsplit(url), LAMBDA u :
    Let(IF p.method = CONNECT THEN urlsplit(<<"/", "/">> \o u.path) ELSE u, LAMBDA hu :
    Let(url_port(hu), LAMBDA pt :
    Let([p EXCEPT !.url = u], LAMBDA p1 :
        IF p.type # REQUEST_PARSER THEN p1
        ELSE IF ~pt.ok THEN [p1 EXCEPT !.exc = "ValueError"]
        ELSE [p1 EXCEPT !.host = url_hostname(hu),
                        !.port = IF p.method = CONNECT \/ (pt.v # NoInt /\ pt.v # <<0>>)
                                 THEN pt.v ELSE <<80>>,
                        !.path = build_url(p1)]))))

\* HttpParser.process_line
process_line(p, raw) ==
    Let(Split(raw, WHITESPACE), LAMBDA line :
        IF p.type = REQUEST_PARSER THEN
            IF Len(line) < 2 THEN [p EXCEPT !.method = Upper(line[1]), !.exc = "IndexError"]
            ELSE Let(set_url([p EXCEPT !.method = Upper(line[1])], line[2]), LAMBDA p2 :
                     IF p2.exc # "ok" THEN p2
                     ELSE IF Len(line) < 3 THEN [p2 EXCEPT !.exc = "IndexError"]
                     ELSE [p2 EXCEPT !.version = line[3]])
        ELSE IF Len(line) < 2 THEN [p EXCEPT !.version = line[1], !.exc = "IndexError"]
        ELSE [p EXCEPT !.version = line[1], !.code = line[2],
                       !.reason = Join(SubSeq(line, 3, Len(line)), <<WHITESPACE>>)])

\* HttpParser.process_header
process_header(p, raw) ==
    Let(Split(raw, COLON), LAMBDA parts :
        [p EXCEPT !.headers = add_header(p.headers, Strip(parts[1]),
                                         Strip(Join(Tail(parts), <<COLON>>)))])

\* The end-of-message rules at the end of HttpParser.process
process_terminal(p, raw) ==
    Let(EndsWith(p.bytes, CRLF \o CRLF), LAMBDA ended :
        IF p.state = LINE_RCVD /\ p.type = RESPONSE_PARSER /\ raw = CRLF
        THEN [p EXCEPT !.state = COMPLETE]
        ELSE IF p.state # HEADERS_COMPLETE \/ p.type # REQUEST_PARSER THEN p
        ELSE IF p.method # POST THEN [p EXCEPT !.state = IF ended THEN COMPLETE ELSE @]
        ELSE IF is_chunked_encoded(p) THEN p
        ELSE IF ~has_key(p.headers, content_length)
        THEN [p EXCEPT !.state = IF ended THEN COMPLETE ELSE @]
        ELSE Let(ParseInt(header_value(p.headers, content_length), 10), LAMBDA n :
                 IF ~n.ok THEN [p EXCEPT !.exc = "ValueError"]
                 ELSE [p EXCEPT !.state = IF n.v = 0 /\ ended THEN COMPLETE ELSE @]))

\* HttpParser.process: one line; the result carries (more, raw)
process(p, raw) ==
    Let(find_http_line(raw), LAMBDA fl :
        IF fl.line = None THEN [p |-> p, more |-> FALSE, raw |-> fl.rest]
        ELSE Let(IF p.state = INITIALIZED
                 THEN process_line([p EXCEPT !.state = LINE_RCVD], fl.line)
                 ELSE IF p.state \notin {LINE_RCVD, RCVING_HEADERS} THEN p
                 ELSE IF Strip(fl.line) = <<>> THEN [p EXCEPT !.state = HEADERS_COMPLETE]
                 ELSE process_header([p EXCEPT !.state = RCVING_HEADERS], fl.line), LAMBDA p1 :
                 IF p1.exc # "ok"
                 THEN [p |-> [p1 EXCEPT !.state = p.state], more |-> FALSE, raw |-> fl.rest]
                 ELSE [p |-> process_terminal(p1, fl.rest), more |-> Len(fl.rest) > 0,
                       raw |-> fl.rest]))

\* The body step of HttpParser.parse in HEADERS_COMPLETE / RCVING_BODY
parse_body(p, raw) ==
    IF has_key(p.headers, content_length) THEN
        Let([p EXCEPT !.state = RCVING_BODY, !.body = IF @ = None THEN <<>> ELSE @], LAMBDA p1 :
        Let(ParseInt(header_value(p.headers, content_length), 10), LAMBDA n :
        Let(p1.body \o SliceTo(raw, n.v - Len(p1.body)), LAMBDA body :
            IF ~n.ok THEN [p |-> [p1 EXCEPT !.exc = "ValueError"], more |-> FALSE, raw |-> raw]
            ELSE [p    |-> [p1 EXCEPT !.body = body,
                                      !.state = IF body # <<>> /\ Len(body) = n.v
                                                THEN COMPLETE ELSE RCVING_BODY],
                  more |-> Len(raw) > 0,
                  raw  |-> SliceFrom(raw, n.v - Len(p1.body))])))
    ELSE IF is_chunked_encoded(p) THEN
        Let(ChunkParser_parse(IF p.chunk_parser.live THEN p.chunk_parser
                              ELSE NewChunkParser(TRUE), raw), LAMBDA r :
            [p |-> IF r.cp.exc # "ok" THEN [p EXCEPT !.chunk_parser = r.cp, !.exc = r.cp.exc]
                   ELSE IF r.cp.state = CHUNK_COMPLETE
                   THEN [p EXCEPT !.body = r.cp.body, !.state = COMPLETE,
                                  !.chunk_parser = NewChunkParser(TRUE)]
                   ELSE [p EXCEPT !.chunk_parser = r.cp],
             more |-> FALSE, raw |-> r.raw])
    \* neither branch is taken: more, raw and the state stay as they are, and
    \* the while loop of parse never ends
    ELSE [p |-> [p EXCEPT !.exc = "hang"], more |-> TRUE, raw |-> raw]

\* The while loop of HttpParser.parse, and the assignment of the leftover
\* bytes that follows it (not reached when an exception escapes)
RECURSIVE parse_loop(_, _, _)
parse_loop(p, raw, more) ==
    IF p.exc # "ok" THEN p
    ELSE IF ~more \/ p.state = COMPLETE THEN [p EXCEPT !.buffer = raw]
    ELSE Let(IF p.state \in {HEADERS_COMPLETE, RCVING_BODY}
             THEN parse_body(p, raw) ELSE process(p, raw), LAMBDA r :
             parse_loop(r.p, r.raw, r.more))

\* A parse that starts on a new message once the last one is complete
parse_anew(p, raw) ==
    Let(IF p.state = COMPLETE THEN HttpParser(p.type) ELSE p, LAMBDA q :
        parse_loop([q EXCEPT !.bytes = q.bytes \o raw,
                             !.total_size = q.total_size + Len(raw),
                             !.buffer = <<>>],
                   q.buffer \o raw, Len(q.buffer \o raw) > 0))

\* HttpParser.parse
parse(p, raw) ==
    parse_loop([p EXCEPT !.bytes = p.bytes \o raw,
                         !.total_size = p.total_size + Len(raw),
                         !.buffer = <<>>],
               p.buffer \o raw, Len(p.buffer \o raw) > 0)

----------------------------------------------------------------------------
(* The parser on its own: a byte stream fed to one HttpParser in pieces *)

\* The byte streams fed: requests and responses as a client or an upstream
\* sends them
ParserStreams == <<
    \* GET / HTTP/1.1\r\nHost: h\r\n\r\n
    [type |-> REQUEST_PARSER, bytes |->
        <<"G", "E", "T", " ", "/", " ", "H", "T", "T", "P", "/", "1", ".", "1", "\r", "\n",
        "H", "o", "s", "t", ":", " ", "h", "\r", "\n", "\r", "\n">>],
    \* GET http://h/ HTTP/1.1\r\nA: 1\r\na: 2\r\n\r\n
    [type |-> REQUEST_PARSER, bytes |->
        <<"G", "E", "T", " ", "h", "t", "t", "p", ":", "/", "/", "h", "/", " ", "H", "T",
        "T", "P", "/", "1", ".", "1", "\r", "\n", "A", ":", " ", "1", "\r", "\n", "a", ":",
        " ", "2", "\r", "\n", "\r", "\n">>],
    \* POST http://h/ HTTP/1.1\r\nContent-Length: 2\r\n\r\nab
    [type |-> REQUEST_PARSER, bytes |->
        <<"P", "O", "S", "T", " ", "h", "t", "t", "p", ":", "/", "/", "h", "/", " ", "H",
        "T", "T", "P", "/", "1", ".", "1", "\r", "\n", "C", "o", "n", "t", "e", "n", "t",
        "-", "L", "e", "n", "g", "t", "h", ":", " ", "2", "\r", "\n", "\r", "\n", "a", "b">>],
    \* GET / HTTP/1.1\r\nContent-Length: 2\r\n\r\nab
    [type |-> REQUEST_PARSER, bytes |->
        <<"G", "E", "T", " ", "/", " ", "H", "T", "T", "P", "/", "1", ".", "1", "\r", "\n",
        "C", "o", "n", "t", "e", "n", "t", "-", "L", "e", "n", "g", "t", "h", ":", " ",
        "2", "\r", "\n", "\r", "\n", "a", "b">>],
    \* CONNECT h:443 HTTP/1.1\r\n\r\n
    [type |-> REQUEST_PARSER, bytes |->
        <<"C", "O", "N", "N", "E", "C", "T", " ", "h", ":", "4", "4", "3", " ", "H", "T",
        "T", "P", "/", "1", ".", "1", "\r", "\n", "\r", "\n">>],
    \* HTTP/1.1 200 OK\r\n\r\n
    [type |-> RESPONSE_PARSER, bytes |->
        <<"H", "T", "T", "P", "/", "1", ".", "1", " ", "2", "0", "0", " ", "O", "K", "\r",
        "\n", "\r", "\n">>],
    \* HTTP/1.1 200 OK\r\nContent-Length: 2\r\n\r\nab
    [type |-> RESPONSE_PARSER, bytes |->
        <<"H", "T", "T", "P", "/", "1", ".", "1", " ", "2", "0", "0", " ", "O", "K", "\r",
        "\n", "C", "o", "n", "t", "e", "n", "t", "-", "L", "e", "n", "g", "t", "h", ":",
        " ", "2", "\r", "\n", "\r", "\n", "a", "b">>],
    \* HTTP/1.1 200 OK\r\nTransfer-Encoding: chunked\r\n\r\n2\r\nab\r\n0\r\n\r\n
    [type |-> RESPONSE_PARSER, bytes |->
        <<"H", "T", "T", "P", "/", "1", ".", "1", " ", "2", "0", "0", " ", "O", "K", "\r",
        "\n", "T", "r", "a", "n", "s", "f", "e", "r", "-", "E", "n", "c", "o", "d", "i",
        "n", "g", ":", " ", "c", "h", "u", "n", "k", "e", "d", "\r", "\n", "\r", "\n", "2",
        "\r", "\n", "a", "b", "\r", "\n", "0", "\r", "\n", "\r", "\n">>],
    \* HTTP/1.1 200 OK\r\nContent-Length: 0\r\n\r\n
    [type |-> RESPONSE_PARSER, bytes |->
        <<"H", "T", "T", "P", "/", "1", ".", "1", " ", "2", "0", "0", " ", "O", "K", "\r",
        "\n", "C", "o", "n", "t", "e", "n", "t", "-", "L", "e", "n", "g", "t", "h", ":",
        " ", "0", "\r", "\n", "\r", "\n">>],
    \* POST / HTTP/1.1\r\nContent-Length: 1\r\n\r\nab
    [type |-> REQUEST_PARSER, bytes |->
        <<"P", "O", "S", "T", " ", "/", " ", "H", "T", "T", "P", "/", "1", ".", "1", "\r",
        "\n", "C", "o", "n", "t", "e", "n", "t", "-", "L", "e", "n", "g", "t", "h", ":",
        " ", "1", "\r", "\n", "\r", "\n", "a", "b">>],
    \* GET /\r\n
    [type |-> REQUEST_PARSER, bytes |->
        <<"G", "E", "T", " ", "/", "\r", "\n">>],
    \* POST / HTTP/1.1\r\nContent-Length: x\r\n\r\na
    [type |-> REQUEST_PARSER, bytes |->
        <<"P", "O", "S", "T", " ", "/", " ", "H", "T", "T", "P", "/", "1", ".", "1", "\r",
        "\n", "C", "o", "n", "t", "e", "n", "t", "-", "L", "e", "n", "g", "t", "h", ":",
        " ", "x", "\r", "\n", "\r", "\n", "a">>],
    \* HTTP/1.1 200 OK\r\nTransfer-Encoding: chunked\r\n\r\nz\r\n
    [type |-> RESPONSE_PARSER, bytes |->
        <<"H", "T", "T", "P", "/", "1", ".", "1", " ", "2", "0", "0", " ", "O", "K", "\r",
        "\n", "T", "r", "a", "n", "s", "f", "e", "r", "-", "E", "n", "c", "o", "d", "i",
        "n", "g", ":", " ", "c", "h", "u", "n", "k", "e", "d", "\r", "\n", "\r", "\n", "z",
        "\r", "\n">>],
    \* GET /a HTTP/1.1\r\n\r\nGET /b HTTP/1.1\r\nA: 1\r\n\r\n
    [type |-> REQUEST_PARSER, bytes |->
        <<"G", "E", "T", " ", "/", "a", " ", "H", "T", "T", "P", "/", "1", ".", "1", "\r",
        "\n", "\r", "\n", "G", "E", "T", " ", "/", "b", " ", "H", "T", "T", "P", "/", "1",
        ".", "1", "\r", "\n", "A", ":", " ", "1", "\r", "\n", "\r", "\n">>] >>

ParserInit ==
    /\ pstream \in 1..Len(ParserStreams)
    /\ pfed = 0
    /\ pparser = HttpParser(ParserStreams[pstream].type)
    /\ scen = 0 /\ h = <<>> /\ io = <<>>
    /\ log = [calls |-> 0, complete_at |-> 0]
    /\ mode = "" /\ works = <<>> /\ worker = "" /\ pending = <<>>
    /\ acc = <<>> /\ tl = <<>> /\ fn = <<>> /\ gen = <<>>

\* One parse call with the next k bytes of the stream; log counts the calls
\* and keeps the number of the call that returned with the state COMPLETE first
ParserFeed ==
    \E k \in 1..(Len(ParserStreams[pstream].bytes) - pfed) :
        /\ pparser.exc = "ok"
        /\ pparser' = parse(pparser, SubSeq(ParserStreams[pstream].bytes, pfed + 1, pfed + k))
        /\ pfed' = pfed + k
        /\ log' = [calls |-> log.calls + 1,
                   complete_at |-> IF log.complete_at = 0 /\ pparser'.state = COMPLETE
                                   THEN log.calls + 1 ELSE log.complete_at]
        /\ UNCHANGED <<pstream, scen, h, io, wvars, xvars>>

ParserNext == ParserFeed

ParserSpec == ParserInit /\ [][ParserNext]_vars

\* What a caller reads of a parser
ParserFields(p) ==
    [state |-> p.state, method |-> p.method, url |-> p.url, code |-> p.code,
     reason |-> p.reason, headers |-> p.headers, body |-> p.body, exc |-> p.exc]

\* parse(S) on a fresh parser of the stream's type
OneShot ==
    parse(HttpParser(ParserStreams[pstream].type), ParserStreams[pstream].bytes)

\* C1: once the whole stream has been fed, in whatever pieces, the parser is in
\* the state and has the method, url, code, reason, headers and body that one
\* parse call with the whole stream gives.
C1_AnyChunkingSameAsOneShot ==
    pfed = Len(ParserStreams[pstream].bytes) =>
        ParserFields(pparser) = ParserFields(OneShot)

----------------------------------------------------------------------------
(* Packet builders.  A headers dict is a sequence of <<name, value>> pairs. *)

\* build_http_pkt (with build_http_header)
RECURSIVE build_http_headers(_)
build_http_headers(headers) ==
    IF Len(headers) = 0 THEN <<>>
    ELSE headers[1][1] \o <<COLON, WHITESPACE>> \o headers[1][2] \o CRLF
         \o build_http_headers(Tail(headers))

build_http_pkt(line, headers, body) ==
    Join(line, <<WHITESPACE>>) \o CRLF \o build_http_headers(headers) \o CRLF
    \o (IF body # None /\ body # <<>> THEN body ELSE <<>>)

\* build_http_response (protocol_version is always the default HTTP/1.1)
build_http_response(status_code, reason, headers, body) ==
    LET line == <<HTTP_1_1, bytes_(status_code)>>
                \o (IF reason # None /\ reason # <<>> THEN <<reason>> ELSE <<>>)
        has_content_length ==
            \E i \in 1..Len(headers) : Lower(headers[i][1]) = content_length
        has_transfer_encoding ==
            \E i \in 1..Len(headers) : Lower(headers[i][1]) = transfer_encoding
        headers1 == IF body # None /\ ~has_transfer_encoding /\ ~has_content_length
                    THEN Append(headers, <<<<"C", "o", "n", "t", "e", "n", "t", "-", "L", "e", "n", "g", "t", "h">>, bytes_(Len(body))>>)
                    ELSE headers
    IN  build_http_pkt(line, headers1, body)

DEFAULT_BUFFER_SIZE == 1048576

\* build_headers without the disable_headers filter
build_headers_unfiltered(p, disable_headers) ==
    [i \in 1..Len(p.headers) |-> <<p.headers[i][2], p.headers[i][3]>>]

\* The headers HttpParser.build passes on: those not disabled, under their
\* original names
build_headers(p, disable_headers) ==
    LET keep == {i \in 1..Len(p.headers) :
                    \A j \in 1..Len(disable_headers) : Lower(p.headers[i][1]) # disable_headers[j]}
        F[i \in 0..Len(p.headers)] ==
            IF i = 0 THEN <<>>
            ELSE IF i \in keep THEN Append(F[i - 1], <<p.headers[i][2], p.headers[i][3]>>)
            ELSE F[i - 1]
    IN  F[Len(p.headers)]

\* HttpParser.build (with build_http_request)
build(p, disable_headers) ==
    LET body == IF is_chunked_encoded(p) /\ p.body # None /\ p.body # <<>>
                THEN to_chunks(p.body, DEFAULT_BUFFER_SIZE) ELSE p.body
    IN  build_http_pkt(<<p.method, p.path, p.version>>, build_headers(p, disable_headers), body)

PROXY_AGENT_HEADER_KEY == <<"P", "r", "o", "x", "y", "-", "a", "g", "e", "n", "t">>
PROXY_AGENT_HEADER_VALUE == <<"p", "r", "o", "x", "y", ".", "p", "y", " ", "v", "1", ".", "2", ".", "0">>

\* HttpProxyPlugin.PROXY_TUNNEL_ESTABLISHED_RESPONSE_PKT
PROXY_TUNNEL_ESTABLISHED_RESPONSE_PKT ==
    build_http_response(200, <<"C", "o", "n", "n", "e", "c", "t", "i", "o", "n", " ", "e", "s", "t", "a", "b",
        "l", "i", "s", "h", "e", "d">>, <<>>, None)

\* ProxyConnectionFailed.RESPONSE_PKT
BAD_GATEWAY_RESPONSE_PKT ==
    build_http_response(502, <<"B", "a", "d", " ", "G", "a", "t", "e", "w", "a", "y">>,
        <<<<PROXY_AGENT_HEADER_KEY, PROXY_AGENT_HEADER_VALUE>>,
          <<<<"C", "o", "n", "n", "e", "c", "t", "i", "o", "n">>, <<"c", "l", "o", "s", "e">>>>>>,
        <<"B", "a", "d", " ", "G", "a", "t", "e", "w", "a", "y">>)

\* ProxyAuthenticationFailed.RESPONSE_PKT
PROXY_AUTH_FAILED_RESPONSE_PKT ==
    build_http_response(407, <<"P", "r", "o", "x", "y", " ", "A", "u", "t", "h", "e", "n", "t", "i", "c", "a",
        "t", "i", "o", "n", " ", "R", "e", "q", "u", "i", "r", "e", "d">>,
        <<<<PROXY_AGENT_HEADER_KEY, PROXY_AGENT_HEADER_VALUE>>,
          <<<<"P", "r", "o", "x", "y", "-", "A", "u", "t", "h", "e", "n", "t", "i", "c", "a",
        "t", "e">>, <<"B", "a", "s", "i", "c">>>>,
          <<<<"C", "o", "n", "n", "e", "c", "t", "i", "o", "n">>, <<"c", "l", "o", "s", "e">>>>>>,
        <<"P", "r", "o", "x", "y", " ", "A", "u", "t", "h", "e", "n", "t", "i", "c", "a",
        "t", "i", "o", "n", " ", "R", "e", "q", "u", "i", "r", "e", "d">>)


----------------------------------------------------------------------------
(* One client connection: configuration and peers *)

\* The connections explored.  Of ProtocolConfig: auth_code, disable_headers
\* (lower-cased as main() stores them), tls_interception (whether the three TLS
\* interception files are configured) and plugins, the HttpProxyBasePlugin
\* classes in order, each named after what its hooks return: "pass" returns the
\* request from both hooks, "skip" returns None from before_upstream_connection,
\* "drop" returns None from handle_client_request.  Of the peers: connect, how
\* TcpServerConnection.connect ends; wrap, how the TLS handshakes of wrap_server
\* and wrap_client end; client and server, the messages each peer sends.
Scenarios == <<
    [auth_code |-> None, disable_headers |-> <<>>, tls_interception |-> FALSE, plugins |-> <<>>,
     connect |-> "ok", wrap |-> "ok",
     client |-> <<<<"C", "O", "N", "N", "E", "C", "T", " ", "h", ":", "4", "4", "3", " ", "H", "T",
            "T", "P", "/", "1", ".", "1", "\r", "\n", "H", "o", "s", "t", ":", " ", "h", ":",
            "4", "4", "3", "\r", "\n", "\r", "\n">>, <<"a", "b">>, <<"c">>>>,
     server |-> <<<<"x", "y">>, <<"z">>>>],
    [auth_code |-> None, disable_headers |-> <<>>, tls_interception |-> FALSE, plugins |-> <<>>,
     connect |-> "fail", wrap |-> "ok",
     client |-> <<<<"C", "O", "N", "N", "E", "C", "T", " ", "h", ":", "4", "4", "3", " ", "H", "T",
            "T", "P", "/", "1", ".", "1", "\r", "\n", "H", "o", "s", "t", ":", " ", "h", ":",
            "4", "4", "3", "\r", "\n", "\r", "\n">>, <<"a", "b">>>>,
     server |-> <<>>],
    [auth_code |-> None, disable_headers |-> <<>>, tls_interception |-> FALSE, plugins |-> <<>>,
     connect |-> "ok", wrap |-> "ok",
     client |-> <<<<"G", "E", "T", " ", "h", "t", "t", "p", ":", "/", "/", "h", "/", "a", " ", "H",
            "T", "T", "P", "/", "1", ".", "1", "\r", "\n", "H", "o", "s", "t", ":", " ", "h",
            "\r", "\n", "\r", "\n">>,
                  <<"G", "E", "T", " ", "h", "t", "t", "p", ":", "/", "/", "h", "/", "b", " ", "H",
            "T", "T", "P", "/", "1", ".", "1", "\r", "\n", "H", "o", "s", "t", ":", " ", "h",
            "\r", "\n", "\r", "\n">>>>,
     server |-> <<<<"H", "T", "T", "P", "/", "1", ".", "1", " ", "2", "0", "0", " ", "O", "K", "\r",
            "\n", "C", "o", "n", "t", "e", "n", "t", "-", "L", "e", "n", "g", "t", "h", ":",
            " ", "2", "\r", "\n", "\r", "\n", "h", "i">>>>],
    [auth_code |-> None, disable_headers |-> <<>>, tls_interception |-> FALSE, plugins |-> <<>>,
     connect |-> "fail", wrap |-> "ok",
     client |-> <<<<"G", "E", "T", " ", "h", "t", "t", "p", ":", "/", "/", "h", "/", "a", " ", "H",
            "T", "T", "P", "/", "1", ".", "1", "\r", "\n", "H", "o", "s", "t", ":", " ", "h",
            "\r", "\n", "\r", "\n">>>>,
     server |-> <<>>],
    [auth_code |-> <<"B", "a", "s", "i", "c", " ", "e", "D", "p", "5">>, disable_headers |-> <<<<"a", "c", "c", "e", "p", "t">>>>,
     tls_interception |-> FALSE, plugins |-> <<>>, connect |-> "ok", wrap |-> "ok",
     client |-> <<<<"G", "E", "T", " ", "h", "t", "t", "p", ":", "/", "/", "h", "/", " ", "H", "T",
            "T", "P", "/", "1", ".", "1", "\r", "\n", "H", "o", "s", "t", ":", " ", "h", "\r",
            "\n", "P", "r", "o", "x", "y", "-", "C", "o", "n", "n", "e", "c", "t", "i", "o",
            "n", ":", " ", "K", "e", "e", "p", "-", "A", "l", "i", "v", "e", "\r", "\n", "P",
            "r", "o", "x", "y", "-", "A", "u", "t", "h", "o", "r", "i", "z", "a", "t", "i",
            "o", "n", ":", " ", "B", "a", "s", "i", "c", " ", "e", "D", "p", "5", "\r", "\n",
            "A", "c", "c", "e", "p", "t", ":", " ", "x", "\r", "\n", "\r", "\n">>>>,
     server |-> <<<<"H", "T", "T", "P", "/", "1", ".", "1", " ", "2", "0", "0", " ", "O", "K", "\r",
            "\n", "C", "o", "n", "t", "e", "n", "t", "-", "L", "e", "n", "g", "t", "h", ":",
            " ", "2", "\r", "\n", "\r", "\n", "h", "i">>>>],
    [auth_code |-> <<"B", "a", "s", "i", "c", " ", "e", "D", "p", "5">>, disable_headers |-> <<>>,
     tls_interception |-> FALSE, plugins |-> <<"pass">>, connect |-> "ok", wrap |-> "ok",
     client |-> <<<<"G", "E", "T", " ", "h", "t", "t", "p", ":", "/", "/", "h", "/", "a", " ", "H",
            "T", "T", "P", "/", "1", ".", "1", "\r", "\n", "H", "o", "s", "t", ":", " ", "h",
            "\r", "\n", "\r", "\n">>>>,
     server |-> <<>>],
    [auth_code |-> <<"B", "a", "s", "i", "c", " ", "e", "D", "p", "5">>, disable_headers |-> <<>>,
     tls_interception |-> FALSE, plugins |-> <<>>, connect |-> "ok", wrap |-> "ok",
     client |-> <<<<"G", "E", "T", " ", "h", "t", "t", "p", ":", "/", "/", "h", "/", " ", "H", "T",
            "T", "P", "/", "1", ".", "1", "\r", "\n", "H", "o", "s", "t", ":", " ", "h", "\r",
            "\n", "P", "r", "o", "x", "y", "-", "A", "u", "t", "h", "o", "r", "i", "z", "a",
            "t", "i", "o", "n", ":", " ", "B", "a", "s", "i", "c", " ", "e", "D", "p", "6",
            "\r", "\n", "\r", "\n">>>>,
     server |-> <<>>],
    [auth_code |-> <<"B", "a", "s", "i", "c", " ", "e", "D", "p", "5">>, disable_headers |-> <<>>,
     tls_interception |-> FALSE, plugins |-> <<>>, connect |-> "ok", wrap |-> "ok",
     client |-> <<<<"C", "O", "N", "N", "E", "C", "T", " ", "h", ":", "4", "4", "3", " ", "H", "T",
            "T", "P", "/", "1", ".", "1", "\r", "\n", "H", "o", "s", "t", ":", " ", "h", ":",
            "4", "4", "3", "\r", "\n", "\r", "\n">>, <<"a", "b">>>>,
     server |-> <<>>],
    [auth_code |-> None, disable_headers |-> <<<<"v", "i", "a">>>>, tls_interception |-> FALSE,
     plugins |-> <<>>, connect |-> "ok", wrap |-> "ok",
     client |-> <<<<"G", "E", "T", " ", "h", "t", "t", "p", ":", "/", "/", "h", "/", " ", "H", "T",
            "T", "P", "/", "1", ".", "1", "\r", "\n", "H", "o", "s", "t", ":", " ", "h", "\r",
            "\n", "P", "r", "o", "x", "y", "-", "C", "o", "n", "n", "e", "c", "t", "i", "o",
            "n", ":", " ", "K", "e", "e", "p", "-", "A", "l", "i", "v", "e", "\r", "\n", "A",
            "c", "c", "e", "p", "t", ":", " ", "x", "\r", "\n", "\r", "\n">>>>,
     server |-> <<<<"H", "T", "T", "P", "/", "1", ".", "1", " ", "2", "0", "0", " ", "O", "K", "\r",
            "\n", "C", "o", "n", "t", "e", "n", "t", "-", "L", "e", "n", "g", "t", "h", ":",
            " ", "2", "\r", "\n", "\r", "\n", "h", "i">>>>],
    [auth_code |-> None, disable_headers |-> <<>>, tls_interception |-> FALSE,
     plugins |-> <<"pass", "skip">>, connect |-> "ok", wrap |-> "ok",
     client |-> <<<<"G", "E", "T", " ", "h", "t", "t", "p", ":", "/", "/", "h", "/", "a", " ", "H",
            "T", "T", "P", "/", "1", ".", "1", "\r", "\n", "H", "o", "s", "t", ":", " ", "h",
            "\r", "\n", "\r", "\n">>>>,
     server |-> <<>>],
    [auth_code |-> None, disable_headers |-> <<>>, tls_interception |-> FALSE,
     plugins |-> <<"pass", "drop">>, connect |-> "ok", wrap |-> "ok",
     client |-> <<<<"G", "E", "T", " ", "h", "t", "t", "p", ":", "/", "/", "h", "/", "a", " ", "H",
            "T", "T", "P", "/", "1", ".", "1", "\r", "\n", "H", "o", "s", "t", ":", " ", "h",
            "\r", "\n", "\r", "\n">>,
                  <<"G", "E", "T", " ", "h", "t", "t", "p", ":", "/", "/", "h", "/", "b", " ", "H",
            "T", "T", "P", "/", "1", ".", "1", "\r", "\n", "H", "o", "s", "t", ":", " ", "h",
            "\r", "\n", "\r", "\n">>>>,
     server |-> <<>>],
    [auth_code |-> None, disable_headers |-> <<>>, tls_interception |-> FALSE,
     plugins |-> <<"pass">>, connect |-> "ok", wrap |-> "ok",
     client |-> <<<<"G", "E", "T", " ", "h", "t", "t", "p", ":", "/", "/", "h", "/", "a", " ", "H",
            "T", "T", "P", "/", "1", ".", "1", "\r", "\n", "H", "o", "s", "t", ":", " ", "h",
            "\r", "\n", "\r", "\n">>,
                  <<"G", "E", "T", " ", "h", "t", "t", "p", ":", "/", "/", "h", "/", "b", " ", "H",
            "T", "T", "P", "/", "1", ".", "1", "\r", "\n", "H", "o", "s", "t", ":", " ", "h",
            "\r", "\n", "\r", "\n">>>>,
     server |-> <<>>],
    [auth_code |-> None, disable_headers |-> <<>>, tls_interception |-> TRUE, plugins |-> <<>>,
     connect |-> "ok", wrap |-> "ok",
     client |-> <<<<"C", "O", "N", "N", "E", "C", "T", " ", "h", ":", "4", "4", "3", " ", "H", "T",
            "T", "P", "/", "1", ".", "1", "\r", "\n", "H", "o", "s", "t", ":", " ", "h", ":",
            "4", "4", "3", "\r", "\n", "\r", "\n">>,
                  <<"G", "E", "T", " ", "/", "p", " ", "H", "T", "T", "P", "/", "1", ".", "1", "\r",
            "\n", "H", "o", "s", "t", ":", " ", "h", "\r", "\n", "\r", "\n">>>>,
     server |-> <<<<"H", "T", "T", "P", "/", "1", ".", "1", " ", "2", "0", "0", " ", "O", "K", "\r",
            "\n", "C", "o", "n", "t", "e", "n", "t", "-", "L", "e", "n", "g", "t", "h", ":",
            " ", "2", "\r", "\n", "\r", "\n", "h", "i">>>>],
    [auth_code |-> None, disable_headers |-> <<>>, tls_interception |-> TRUE, plugins |-> <<>>,
     connect |-> "ok", wrap |-> "server_fail",
     client |-> <<<<"C", "O", "N", "N", "E", "C", "T", " ", "h", ":", "4", "4", "3", " ", "H", "T",
            "T", "P", "/", "1", ".", "1", "\r", "\n", "H", "o", "s", "t", ":", " ", "h", ":",
            "4", "4", "3", "\r", "\n", "\r", "\n">>>>,
     server |-> <<>>],
    [auth_code |-> None, disable_headers |-> <<>>, tls_interception |-> TRUE, plugins |-> <<>>,
     connect |-> "ok", wrap |-> "client_fail",
     client |-> <<<<"C", "O", "N", "N", "E", "C", "T", " ", "h", ":", "4", "4", "3", " ", "H", "T",
            "T", "P", "/", "1", ".", "1", "\r", "\n", "H", "o", "s", "t", ":", " ", "h", ":",
            "4", "4", "3", "\r", "\n", "\r", "\n">>>>,
     server |-> <<>>],
    [auth_code |-> None, disable_headers |-> <<>>, tls_interception |-> TRUE,
     plugins |-> <<"skip">>, connect |-> "ok", wrap |-> "ok",
     client |-> <<<<"C", "O", "N", "N", "E", "C", "T", " ", "h", ":", "4", "4", "3", " ", "H", "T",
            "T", "P", "/", "1", ".", "1", "\r", "\n", "H", "o", "s", "t", ":", " ", "h", ":",
            "4", "4", "3", "\r", "\n", "\r", "\n">>>>,
     server |-> <<>>],
    [auth_code |-> None, disable_headers |-> <<>>, tls_interception |-> FALSE, plugins |-> <<>>,
     connect |-> "ok", wrap |-> "ok",
     client |-> <<<<"G", "E", "T", " ", "/", " ", "H", "T", "T", "P", "/", "1", ".", "1", "\r", "\n",
            "H", "o", "s", "t", ":", " ", "h", "\r", "\n", "\r", "\n">>, <<"G", "E", "T", " ", "/", " ", "H", "T", "T", "P", "/", "1", ".", "1", "\r", "\n",
            "\r", "\n">>>>,
     server |-> <<>>],
    [auth_code |-> None, disable_headers |-> <<>>, tls_interception |-> FALSE, plugins |-> <<>>,
     connect |-> "ok", wrap |-> "ok",
     client |-> <<<<"P", "O", "S", "T", " ", "h", "t", "t", "p", ":", "/", "/", "h", "/", " ", "H",
            "T", "T", "P", "/", "1", ".", "1", "\r", "\n", "C", "o", "n", "t", "e", "n", "t",
            "-", "L", "e", "n", "g", "t", "h", ":", " ", "2", "\r", "\n", "\r", "\n", "o", "k">>>>,
     server |-> <<<<"H", "T", "T", "P", "/", "1", ".", "1", " ", "2", "0", "0", " ", "O", "K", "\r",
            "\n", "C", "o", "n", "t", "e", "n", "t", "-", "L", "e", "n", "g", "t", "h", ":",
            " ", "2", "\r", "\n", "\r", "\n", "h", "i">>>>],
    [auth_code |-> None, disable_headers |-> <<>>, tls_interception |-> FALSE, plugins |-> <<>>,
     connect |-> "ok", wrap |-> "ok",
     client |-> <<<<"G", "E", "T", "\r", "\n", "\r", "\n">>>>,
     server |-> <<>>],
    [auth_code |-> None, disable_headers |-> <<>>, tls_interception |-> FALSE,
     plugins |-> <<"drop", "pass">>, connect |-> "ok", wrap |-> "ok",
     client |-> <<<<"G", "E", "T", " ", "h", "t", "t", "p", ":", "/", "/", "h", "/", "a", " ", "H",
            "T", "T", "P", "/", "1", ".", "1", "\r", "\n", "H", "o", "s", "t", ":", " ",
            "h", "\r", "\n", "\r", "\n">>,
                  <<"G", "E", "T", " ", "h", "t", "t", "p", ":", "/", "/", "h", "/", "b", " ", "H",
            "T", "T", "P", "/", "1", ".", "1", "\r", "\n", "H", "o", "s", "t", ":", " ",
            "h", "\r", "\n", "\r", "\n">>,
                  <<"G", "E", "T", " ", "h", "t", "t", "p", ":", "/", "/", "h", "/", "c", " ", "H",
            "T", "T", "P", "/", "1", ".", "1", "\r", "\n", "H", "o", "s", "t", ":", " ",
            "h", "\r", "\n", "\r", "\n">>>>,
     server |-> <<>>],
    [auth_code |-> None, disable_headers |-> <<>>, tls_interception |-> TRUE,
     plugins |-> <<"pass">>, connect |-> "ok", wrap |-> "ok",
     client |-> <<<<"C", "O", "N", "N", "E", "C", "T", " ", "h", ":", "4", "4", "3", " ", "H", "T",
            "T", "P", "/", "1", ".", "1", "\r", "\n", "H", "o", "s", "t", ":", " ", "h",
            ":", "4", "4", "3", "\r", "\n", "\r", "\n">>,
                  <<"G", "E", "T", " ", "/", "p", " ", "H", "T", "T", "P", "/", "1", ".", "1",
            "\r", "\n", "H", "o", "s", "t", ":", " ", "h", "\r", "\n", "\r", "\n">>,
                  <<"G", "E", "T", " ", "/", "q", " ", "H", "T", "T", "P", "/", "1", ".", "1",
            "\r", "\n", "H", "o", "s", "t", ":", " ", "h", "\r", "\n", "\r", "\n">>>>,
     server |-> <<>>],
    [auth_code |-> <<"B", "a", "s", "i", "c", " ", "e", "D", "p", "5">>, disable_headers |-> <<<<"a", "c", "c", "e", "p", "t">>>>, tls_interception |-> FALSE, plugins |-> <<>>,
     connect |-> "ok", wrap |-> "ok",
     client |-> <<<<"G", "E", "T", " ", "h", "t", "t", "p", ":", "/", "/", "h", "/", "a", " ", "H",
            "T", "T", "P", "/", "1", ".", "1", "\r", "\n", "H", "o", "s", "t", ":", " ",
            "h", "\r", "\n", "P", "r", "o", "x", "y", "-", "A", "u", "t", "h", "o", "r",
            "i", "z", "a", "t", "i", "o", "n", ":", " ", "B", "a", "s", "i", "c", " ", "e",
            "D", "p", "5", "\r", "\n", "A", "c", "c", "e", "p", "t", ":", " ", "x", "\r",
            "\n", "\r", "\n">>,
                  <<"G", "E", "T", " ", "h", "t", "t", "p", ":", "/", "/", "h", "/", "b", " ", "H",
            "T", "T", "P", "/", "1", ".", "1", "\r", "\n", "H", "o", "s", "t", ":", " ",
            "h", "\r", "\n", "P", "r", "o", "x", "y", "-", "C", "o", "n", "n", "e", "c",
            "t", "i", "o", "n", ":", " ", "K", "e", "e", "p", "-", "A", "l", "i", "v", "e",
            "\r", "\n", "P", "r", "o", "x", "y", "-", "A", "u", "t", "h", "o", "r", "i",
            "z", "a", "t", "i", "o", "n", ":", " ", "B", "a", "s", "i", "c", " ", "e", "D",
            "p", "5", "\r", "\n", "A", "c", "c", "e", "p", "t", ":", " ", "x", "\r", "\n",
            "\r", "\n">>>>,
     server |-> <<>>],
    [auth_code |-> None, disable_headers |-> <<>>, tls_interception |-> FALSE, plugins |-> <<"skip">>,
     connect |-> "ok", wrap |-> "ok",
     client |-> <<<<"C", "O", "N", "N", "E", "C", "T", " ", "h", ":", "4", "4", "3", " ", "H", "T",
            "T", "P", "/", "1", ".", "1", "\r", "\n", "H", "o", "s", "t", ":", " ", "h",
            ":", "4", "4", "3", "\r", "\n", "\r", "\n">>,
                  <<"a", "b">>>>,
     server |-> <<>>],
    [auth_code |-> None, disable_headers |-> <<>>, tls_interception |-> FALSE, plugins |-> <<>>,
     connect |-> "ok", wrap |-> "ok",
     client |-> <<<<"G", "E", "T", " ", "/", " ", "H", "T", "T", "P", "/", "1", ".", "1", "\r",
            "\n", "H", "o", "s", "t", ":", " ", "h", "\r", "\n", "\r", "\n">>,
                  <<"G", "E", "T", " ", "/", "b", " ", "H", "T", "T", "P", "/", "1", ".", "1",
            "\r", "\n", "H", "o", "s", "t", ":", " ", "h", "\r", "\n", "\r", "\n">>>>,
     server |-> <<>>],
    [auth_code |-> None, disable_headers |-> <<>>, tls_interception |-> FALSE, plugins |-> <<>>,
     connect |-> "ok", wrap |-> "ok",
     client |-> <<<<"G", "E", "T", " ", "/", " ", "H", "T", "T", "P", "/", "1", ".", "1", "\r",
            "\n", "H", "o", "s", "t", ":", " ", "h", "\r", "\n", "\r", "\n">>,
                  <<"G", "E", "T", " ", "/", "b", " ", "H", "T", "T", "P", "/", "1", ".", "1",
            "\r", "\n", "H", "o", "s", "t", ":", " ", "h", "\r", "\n", "\r", "\n">>>>,
     server |-> <<>>] >>

\* The configuration and peers of the connection
config == Scenarios[scen]

\* How far a message boundary may be from where a recv call ends
Slack == 1

\* All messages of a peer, as the byte stream its socket delivers
RECURSIVE Concat(_)
Concat(msgs) == IF Len(msgs) = 0 THEN <<>> ELSE Head(msgs) \o Concat(Tail(msgs))

\* The stream offsets at which one recv call may end: within Slack bytes of the
\* end of a message
Cuts(msgs) ==
    {n \in 1..Len(Concat(msgs)) :
        \E i \in 1..Len(msgs) :
            LET b == Len(Concat(SubSeq(msgs, 1, i)))
            IN  n \in (b - Slack)..(b + Slack)}


----------------------------------------------------------------------------
(* ProtocolHandler with HttpProxyPlugin as its one core plugin.  The operators *)
(* below work on a record w = [h, io, log] of the connection's variables.     *)

\* The classes of config.plugins[b'ProtocolHandlerPlugin'] in order.  The first,
\* "chunk", is HttpProxyPlugin.  The others are named after the one hook they
\* do not leave at its default: "lower" returns the chunk lower-cased from
\* on_response_chunk and "none" returns None from it, "data_lower" returns the
\* bytes lower-cased from on_client_data and "data_none" returns None from it,
\* "teardown" returns True from on_request_complete, "watch" changes nothing.
ProtocolHandlerPlugins ==
    CASE scen = 1 -> <<"chunk", "lower">>
      [] scen = 3 -> <<"chunk", "none", "lower">>
      [] scen \in {12, 13, 15, 21} -> <<"chunk", "watch">>
      [] scen = 17 -> <<"chunk", "data_lower", "watch">>
      [] scen = 24 -> <<"chunk", "data_none", "watch">>
      [] scen = 25 -> <<"chunk", "watch", "teardown", "watch">>
      [] OTHER -> <<"chunk">>

\* ProtocolHandler.__init__ and HttpProxyPlugin.__init__.  A pipeline parser
\* that is None is the empty sequence, otherwise the one-element sequence of the
\* parser.  server.exists is "self.server is not None".  conn has, for the
\* handler, each core plugin and each proxy sub-plugin, whether an assignment
\* made through its own client attribute has set _conn to the TLS-wrapped
\* socket (all of them hold the TcpClientConnection that initialize passes on,
\* so in the program each such assignment reaches all of them).  status is where
\* ProtocolHandler.run stands: "running" its loop, "teardown" after a step
\* asked for it, "raised" after an exception (exc) left handle_events, "hung"
\* inside a call that never returns.
NewHandler ==
    [request |-> HttpParser(REQUEST_PARSER), response |-> HttpParser(RESPONSE_PARSER),
     pipeline_request |-> <<>>, pipeline_response |-> <<>>,
     client |-> [buffer |-> <<>>, closed |-> FALSE, tls |-> FALSE],
     server |-> [exists |-> FALSE, connected |-> FALSE, closed |-> FALSE,
                 buffer |-> <<>>, tls |-> FALSE],
     conn |-> [handler |-> FALSE,
               core |-> [i \in 1..Len(ProtocolHandlerPlugins) |-> FALSE],
               sub |-> [i \in 1..Len(config.plugins) |-> FALSE]],
     status |-> "running", exc |-> ""]

\* TcpConnection.queue
queue(conn, data) == [conn EXCEPT !.buffer = @ \o data]

\* TcpConnection.flush that forgets what the socket did not accept
flush_dropping(conn, n) == [conn EXCEPT !.buffer = <<>>]

\* TcpConnection.flush when send takes n bytes
flush(conn, n) == [conn EXCEPT !.buffer = SliceFrom(@, n)]

\* HttpParser.has_upstream_server
has_upstream_server(p) == p.host # None

\* The exceptions that derive from ProtocolException
IsProtocolException(e) ==
    e \in {"ProtocolException", "ProxyAuthenticationFailed", "ProxyConnectionFailed"}

\* ProtocolException.response and its overrides
response(e) ==
    CASE e = "ProxyAuthenticationFailed" -> PROXY_AUTH_FAILED_RESPONSE_PKT
      [] e = "ProxyConnectionFailed" -> BAD_GATEWAY_RESPONSE_PKT
      [] OTHER -> None

\* authenticate that lets every request through
authenticate_anyone(request) == ""

\* HttpProxyPlugin.authenticate: the exception it raises, "" for none
authenticate(request) ==
    IF /\ config.auth_code # None
       /\ config.auth_code # <<>>
       /\ \/ ~has_key(request.headers, <<"p", "r", "o", "x", "y", "-", "a", "u", "t", "h", "o", "r", "i", "z", "a", "t",
            "i", "o", "n">>)
          \/ header_value(request.headers, <<"p", "r", "o", "x", "y", "-", "a", "u", "t", "h", "o", "r", "i", "z", "a", "t",
            "i", "o", "n">>) # config.auth_code
    THEN "ProxyAuthenticationFailed"
    ELSE ""

\* One "for plugin in self.plugins.values()" loop over the HttpProxyBasePlugin
\* instances calling hook with request: the calls made, up to and including the
\* first plugin of the kind that returns None from this hook
hook_calls(hook, none_kind, request) ==
    Let({i \in 1..Len(config.plugins) : config.plugins[i] = none_kind}, LAMBDA stops :
        [calls |-> [i \in 1..(IF stops = {} THEN Len(config.plugins) ELSE MinOf(stops)) |->
                       [plugin |-> i, hook |-> hook, path |-> request.path]],
         stopped |-> stops # {}])

\* connect_upstream that goes on after a failed connect
connect_upstream_unchecked(w) ==
    [w |-> [w EXCEPT !.h.server.exists = TRUE, !.h.server.connected = config.connect = "ok"],
     exc |-> ""]

\* HttpProxyPlugin.connect_upstream
connect_upstream(w) ==
    LET host == w.h.request.host
        port == w.h.request.port
    IN  IF host # None /\ host # <<>> /\ port # NoInt /\ port # <<0>>
        THEN IF config.connect = "ok"
             THEN [w |-> [w EXCEPT !.h.server.exists = TRUE, !.h.server.connected = TRUE],
                   exc |-> ""]
             ELSE [w |-> [w EXCEPT !.h.server.exists = TRUE, !.h.server.closed = TRUE],
                   exc |-> "ProxyConnectionFailed"]
        ELSE [w |-> w, exc |-> "ProtocolException"]


\* HttpProxyPlugin.on_request_complete.  ret is "False", "True" or "socket" (the
\* TLS-wrapped client connection); exc is the exception it raises, "" for none.
\* wrap_client's client.flush is made on a blocking socket and sends the whole
\* buffer.
on_request_complete(w) ==
    IF ~has_upstream_server(w.h.request) THEN [w |-> w, ret |-> "False", exc |-> ""]
    ELSE IF authenticate(w.h.request) # ""
    THEN [w |-> w, ret |-> "False", exc |-> "ProxyAuthenticationFailed"]
    ELSE
    Let(hook_calls("before_upstream_connection", "skip", w.h.request), LAMBDA before :
    Let(IF before.stopped THEN [w |-> [w EXCEPT !.log.hooks = @ \o before.calls], exc |-> ""]
        ELSE connect_upstream([w EXCEPT !.log.hooks = @ \o before.calls]), LAMBDA conn :
    Let(hook_calls("handle_client_request", "drop", w.h.request), LAMBDA after :
    Let([conn.w EXCEPT !.log.hooks = @ \o after.calls], LAMBDA w2 :
        IF conn.exc # "" THEN [w |-> conn.w, ret |-> "False", exc |-> conn.exc]
        ELSE IF after.stopped THEN [w |-> w2, ret |-> "False", exc |-> ""]
        ELSE IF w.h.request.method = CONNECT THEN
            Let([w2 EXCEPT !.h.client = queue(@, PROXY_TUNNEL_ESTABLISHED_RESPONSE_PKT)],
                LAMBDA w3 :
            Let([w3 EXCEPT !.h.server.tls = TRUE,
                           !.io.csent = @ \o w3.h.client.buffer,
                           !.h.client.buffer = <<>>], LAMBDA w4 :
                IF ~config.tls_interception THEN [w |-> w3, ret |-> "False", exc |-> ""]
                ELSE IF ~w3.h.server.exists
                THEN [w |-> w3, ret |-> "False", exc |-> "AssertionError"]
                ELSE IF config.wrap = "server_fail"
                THEN [w |-> w3, ret |-> "False", exc |-> "SSLError"]
                ELSE IF config.wrap = "client_fail" THEN [w |-> w4, ret |-> "True", exc |-> ""]
                ELSE [w |-> [w4 EXCEPT !.h.client.tls = TRUE,
                                       !.h.conn.core[1] = TRUE,
                                       !.h.conn.sub = [i \in DOMAIN @ |-> TRUE]],
                      ret |-> "socket", exc |-> ""]))
        ELSE IF ~w2.h.server.exists THEN [w |-> w2, ret |-> "False", exc |-> ""]
        ELSE
            Let([w.h.request EXCEPT !.headers =
                    add_header(del_headers(@, <<<<"p", "r", "o", "x", "y", "-", "a", "u", "t", "h", "o", "r", "i", "z", "a", "t",
            "i", "o", "n">>,
                                                <<"p", "r", "o", "x", "y", "-", "c", "o", "n", "n", "e", "c", "t", "i", "o", "n">>>>),
                               <<"V", "i", "a">>, <<"1", ".", "1", " ">> \o PROXY_AGENT_HEADER_VALUE)], LAMBDA req :
            Let(build(req, config.disable_headers), LAMBDA pkt :
                [w |-> [w2 EXCEPT !.h.request = req,
                                  !.h.server = queue(@, pkt),
                                  !.log.forwarded = Append(@, [by |-> "on_request_complete",
                                      path |-> req.path, pkt |-> pkt,
                                      headers |-> build_headers(req, config.disable_headers)])],
                 ret |-> "False", exc |-> ""]))))))

\* on_client_data that keeps what the client sends once the request has
\* named an upstream
on_client_data_swallowing(w, raw) ==
    [w |-> w, ret |-> IF has_upstream_server(w.h.request) THEN None ELSE raw, exc |-> ""]

\* HttpProxyPlugin.on_client_data.  ret is what it returns (None or raw), exc
\* how a parse call it makes ended when that is not "ok".  log.fed has, for each
\* request parser created on the connection, the first and last client stream
\* offsets of the bytes fed to it.
on_client_data(w, raw) ==
    IF ~has_upstream_server(w.h.request) THEN [w |-> w, ret |-> raw, exc |-> ""]
    ELSE IF ~w.h.server.exists \/ w.h.server.closed THEN [w |-> w, ret |-> raw, exc |-> ""]
    ELSE IF ~(/\ w.h.request.state = COMPLETE
              /\ (w.h.request.method # CONNECT \/ config.tls_interception))
    THEN [w |-> [w EXCEPT !.h.server = queue(@, raw)], ret |-> None, exc |-> ""]
    ELSE
    Let(parse(IF w.h.pipeline_request = <<>> THEN HttpParser(REQUEST_PARSER)
              ELSE w.h.pipeline_request[1], raw), LAMBDA p1 :
    Let([w EXCEPT !.h.pipeline_request = <<p1>>,
                  !.log.fed = IF w.h.pipeline_request = <<>>
                              THEN Append(@, <<w.io.cpos - Len(raw) + 1, w.io.cpos>>)
                              ELSE [@ EXCEPT ![Len(@)][2] = w.io.cpos]], LAMBDA w1 :
        IF p1.exc # "ok" THEN [w |-> w1, ret |-> None, exc |-> p1.exc]
        ELSE IF p1.state # COMPLETE THEN [w |-> w1, ret |-> None, exc |-> ""]
        ELSE
        Let(hook_calls("handle_client_request", "drop", p1), LAMBDA calls :
        Let(build(p1, <<>>), LAMBDA pkt :
            IF calls.stopped
            THEN [w |-> [w1 EXCEPT !.log.hooks = @ \o calls.calls], ret |-> None, exc |-> ""]
            ELSE [w |-> [w1 EXCEPT !.log.hooks = @ \o calls.calls,
                                   !.h.server = queue(@, pkt),
                                   !.h.pipeline_request = <<>>,
                                   !.log.forwarded = Append(@, [by |-> "on_client_data",
                                       path |-> p1.path, pkt |-> pkt,
                                       headers |-> build_headers(p1, <<>>)])],
                  ret |-> None, exc |-> ""]))))

\* What one descriptor does in one select round: ev.kind is "none" (not ready),
\* "send" (writable, send takes ev.n bytes), "data" (readable, recv returns the
\* stream up to offset ev.n), "eof" (readable, recv returns no bytes) or "error"
\* (send or recv raises OSError).  The step operators return the connection
\* with teardown (the boolean the code returns) and exc (an exception that
\* leaves the call, "hang" for a call that never returns, "" for none).

\* ProtocolHandlerPlugin.on_response_chunk of a plugin of the given kind
on_response_chunk(kind, chunk) ==
    CASE kind = "lower" -> Lower(chunk)
      [] kind = "none" -> None
      [] OTHER -> chunk

\* The loop of handle_writables over the plugins from index i on: the calls
\* made, each with the chunk it was given, and the chunk left at the end
RECURSIVE response_chunks(_, _, _)
response_chunks(plugins, i, chunk) ==
    IF i > Len(plugins) THEN [calls |-> <<>>, out |-> chunk]
    ELSE Let(on_response_chunk(plugins[i], chunk), LAMBDA c :
             IF c = None THEN [calls |-> <<[plugin |-> i, chunk |-> chunk]>>, out |-> None]
             ELSE Let(response_chunks(plugins, i + 1, c), LAMBDA r :
                      [calls |-> <<[plugin |-> i, chunk |-> chunk]>> \o r.calls, out |-> r.out]))

\* ProtocolHandler.handle_writables.  log.written has the plugin calls of the
\* last call, log.presented the bytes the first plugin's on_response_chunk
\* was given on the connection, in the order of the calls, up to and including
\* the first call that was given bytes other than the next ones queued for
\* the client.
handle_writables(w, ev) ==
    IF Len(w.h.client.buffer) > 0 /\ ev.kind # "none"
    THEN Let(response_chunks(ProtocolHandlerPlugins, 1, w.h.client.buffer), LAMBDA r :
         IF ev.kind = "error"
         THEN [w |-> [w EXCEPT !.log.written = [calls |-> r.calls, out |-> r.out,
                                                pending |-> w.h.client.buffer, sent |-> <<>>],
                               !.log.presented =
                                   IF StartsWith(w.io.csent \o w.h.client.buffer, @)
                                   THEN @ \o w.h.client.buffer ELSE @],
               teardown |-> TRUE, exc |-> ""]
         ELSE [w |-> [w EXCEPT !.h.client = flush(@, ev.n),
                               !.io.csent = @ \o SliceTo(w.h.client.buffer, ev.n),
                               !.io.shorts = @ + (IF ev.n < Len(w.h.client.buffer) THEN 1 ELSE 0),
                               !.log.written = [calls |-> r.calls, out |-> r.out,
                                                pending |-> w.h.client.buffer,
                                                sent |-> SliceTo(w.h.client.buffer, ev.n)],
                               !.log.presented =
                                   IF StartsWith(w.io.csent \o w.h.client.buffer, @)
                                   THEN @ \o w.h.client.buffer ELSE @],
               teardown |-> FALSE, exc |-> ""])
    ELSE [w |-> w, teardown |-> FALSE, exc |-> ""]

\* HttpProxyPlugin.write_to_descriptors
write_to_descriptors(w, ev) ==
    IF /\ has_upstream_server(w.h.request)
       /\ w.h.server.exists /\ ~w.h.server.closed
       /\ Len(w.h.server.buffer) > 0
       /\ ev.kind # "none"
    THEN IF ev.kind = "error" THEN [w |-> w, teardown |-> TRUE, exc |-> ""]
         ELSE [w |-> [w EXCEPT !.h.server = flush(@, ev.n),
                               !.io.ssent = @ \o SliceTo(w.h.server.buffer, ev.n),
                               !.io.shorts = @ + (IF ev.n < Len(w.h.server.buffer) THEN 1 ELSE 0)],
               teardown |-> FALSE, exc |-> ""]
    ELSE [w |-> w, teardown |-> FALSE, exc |-> ""]

\* ProtocolHandlerPlugin.on_client_data of a core plugin other than
\* HttpProxyPlugin
plugin_on_client_data(kind, raw) ==
    CASE kind = "data_lower" -> Lower(raw)
      [] kind = "data_none" -> None
      [] OTHER -> raw

\* ProtocolHandlerPlugin.on_request_complete of a core plugin other than
\* HttpProxyPlugin: "True" asks for the teardown of the connection
plugin_on_request_complete(kind) ==
    IF kind = "teardown" THEN "True" ELSE "False"

\* The chain of on_client_data calls as it would be if a plugin that returns
\* None were skipped over and the next plugin given the same bytes
RECURSIVE client_data_chain_past_none(_, _, _)
client_data_chain_past_none(w, i, client_data) ==
    IF i > Len(ProtocolHandlerPlugins) \/ client_data = <<>>
    THEN [w |-> w, ret |-> client_data, exc |-> ""]
    ELSE
    Let(IF i = 1 THEN on_client_data(w, client_data)
        ELSE [w |-> w, exc |-> "",
              ret |-> plugin_on_client_data(ProtocolHandlerPlugins[i], client_data)], LAMBDA d :
    Let([d.w EXCEPT !.log.data = Append(@, [plugin |-> i, raw |-> client_data,
                                            ret |-> d.ret])], LAMBDA w1 :
        IF d.exc # "" THEN [w |-> w1, ret |-> d.ret, exc |-> d.exc]
        ELSE client_data_chain_past_none(w1, i + 1,
                                         IF d.ret = None THEN client_data ELSE d.ret)))

\* The while loop of ProtocolHandler.handle_readables over the core plugins,
\* from plugin i on.  log.data gets one entry for every on_client_data call.
RECURSIVE client_data_chain(_, _, _)
client_data_chain(w, i, client_data) ==
    IF i > Len(ProtocolHandlerPlugins) \/ client_data = <<>>
    THEN [w |-> w, ret |-> client_data, exc |-> ""]
    ELSE
    Let(IF i = 1 THEN on_client_data(w, client_data)
        ELSE [w |-> w, exc |-> "",
              ret |-> plugin_on_client_data(ProtocolHandlerPlugins[i], client_data)], LAMBDA d :
    Let([d.w EXCEPT !.log.data = Append(@, [plugin |-> i, raw |-> client_data,
                                            ret |-> d.ret])], LAMBDA w1 :
        IF d.exc # "" \/ d.ret = None
        THEN [w |-> w1, ret |-> d.ret, exc |-> d.exc]
        ELSE client_data_chain(w1, i + 1, d.ret)))

\* The loop over on_request_complete as it would be if the returned socket
\* were not assigned to the handler's and the other plugins' client, and a
\* returned True did not end the loop
RECURSIVE request_complete_loop_ignoring(_, _)
request_complete_loop_ignoring(w, i) ==
    IF i > Len(ProtocolHandlerPlugins) THEN [w |-> w, teardown |-> FALSE, exc |-> ""]
    ELSE
    Let(IF i = 1 THEN on_request_complete(w)
        ELSE [w |-> w, exc |-> "",
              ret |-> plugin_on_request_complete(ProtocolHandlerPlugins[i])], LAMBDA c :
    Let([c.w EXCEPT !.log.completes = Append(@, [plugin |-> i, ret |-> c.ret])], LAMBDA w1 :
        IF c.exc # "" THEN [w |-> w1, teardown |-> FALSE, exc |-> c.exc]
        ELSE request_complete_loop_ignoring(w1, i + 1)))

\* The for loop of ProtocolHandler.handle_readables that invokes
\* on_request_complete, from plugin i on.  log.completes gets one entry for
\* every call.
RECURSIVE request_complete_loop(_, _)
request_complete_loop(w, i) ==
    IF i > Len(ProtocolHandlerPlugins) THEN [w |-> w, teardown |-> FALSE, exc |-> ""]
    ELSE
    Let(IF i = 1 THEN on_request_complete(w)
        ELSE [w |-> w, exc |-> "",
              ret |-> plugin_on_request_complete(ProtocolHandlerPlugins[i])], LAMBDA c :
    Let([c.w EXCEPT !.log.completes = Append(@, [plugin |-> i, ret |-> c.ret])], LAMBDA w1 :
        IF c.exc # "" THEN [w |-> w1, teardown |-> FALSE, exc |-> c.exc]
        ELSE IF c.ret = "socket"
        THEN request_complete_loop(
                 [w1 EXCEPT !.h.conn.handler = TRUE,
                            !.h.conn.core = [j \in DOMAIN @ |-> IF j # i THEN TRUE ELSE @[j]]],
                 i + 1)
        ELSE IF c.ret = "True" THEN [w |-> w1, teardown |-> TRUE, exc |-> ""]
        ELSE request_complete_loop(w1, i + 1)))

\* ProtocolHandler.handle_readables.  log.read is what this call read from the
\* client, log.data the on_client_data calls it made and log.parse whether it
\* fed self.request, in which state and with which bytes; a call that finds
\* the client not readable leaves them empty.
handle_readables(w, ev) ==
    IF ev.kind = "none"
    THEN [w |-> [w EXCEPT !.log.data = <<>>, !.log.read = <<>>,
                          !.log.parse = [called |-> FALSE, before |-> 0, raw |-> <<>>]],
          teardown |-> FALSE, exc |-> ""]
    ELSE IF ev.kind = "error" THEN [w |-> w, teardown |-> TRUE, exc |-> ""]
    ELSE IF ev.kind = "eof"
    THEN [w |-> [w EXCEPT !.h.client.closed = TRUE], teardown |-> TRUE, exc |-> ""]
    ELSE
    Let(SubSeq(Concat(config.client), w.io.cpos + 1, ev.n), LAMBDA client_data :
    Let(client_data_chain([w EXCEPT !.io.cpos = ev.n, !.log.data = <<>>,
                                    !.log.read = client_data,
                                    !.log.parse = [called |-> FALSE, before |-> 0,
                                                   raw |-> <<>>]],
                          1, client_data), LAMBDA d :
        IF d.exc # "" \/ d.ret = None \/ d.ret = <<>> \/ d.w.h.request.state = COMPLETE
        THEN [w |-> d.w, teardown |-> FALSE, exc |-> d.exc]
        ELSE
        Let(parse(d.w.h.request, d.ret), LAMBDA request :
        Let([d.w EXCEPT !.h.request = request,
                        !.log.parse = [called |-> TRUE, before |-> d.w.h.request.state,
                                       raw |-> d.ret],
                        !.log.fed = IF @ = <<>> THEN <<<<w.io.cpos + 1, ev.n>>>>
                                    ELSE [@ EXCEPT ![1][2] = ev.n]], LAMBDA w1 :
            IF request.exc # "ok" \/ request.state # COMPLETE
            THEN [w |-> w1, teardown |-> FALSE,
                  exc |-> IF request.exc = "ok" THEN "" ELSE request.exc]
            ELSE
            Let(request_complete_loop([w1 EXCEPT !.log.complete_at = <<ev.n>>,
                                                 !.log.parsed = <<request.headers>>], 1),
                LAMBDA c :
                IF IsProtocolException(c.exc)
                THEN [w |-> IF response(c.exc) # None
                            THEN [c.w EXCEPT !.h.client = queue(@, response(c.exc))] ELSE c.w,
                      teardown |-> TRUE, exc |-> ""]
                ELSE [w |-> c.w, teardown |-> c.teardown, exc |-> c.exc])))))

\* HttpProxyPlugin.read_from_descriptors
read_from_descriptors(w, ev) ==
    IF ~(/\ has_upstream_server(w.h.request)
         /\ w.h.server.exists /\ ~w.h.server.closed
         /\ ev.kind # "none")
    THEN [w |-> w, teardown |-> FALSE, exc |-> ""]
    ELSE IF ev.kind \in {"eof", "error"} THEN [w |-> w, teardown |-> TRUE, exc |-> ""]
    ELSE
    Let(SubSeq(Concat(config.server), w.io.spos + 1, ev.n), LAMBDA raw :
    Let([w EXCEPT !.io.spos = ev.n], LAMBDA w0 :
        IF w.h.request.method = CONNECT
        THEN [w |-> [w0 EXCEPT !.h.response.total_size = @ + Len(raw),
                               !.h.client = queue(@, raw)],
              teardown |-> FALSE, exc |-> ""]
        ELSE
        Let(parse(IF w.h.response.state # COMPLETE THEN w.h.response
                  ELSE IF w.h.pipeline_response = <<>> THEN HttpParser(RESPONSE_PARSER)
                  ELSE w.h.pipeline_response[1], raw), LAMBDA p1 :
        Let(IF w.h.response.state # COMPLETE THEN [w0 EXCEPT !.h.response = p1]
            ELSE [w0 EXCEPT !.h.pipeline_response =
                      IF p1.exc = "ok" /\ p1.state = COMPLETE THEN <<>> ELSE <<p1>>], LAMBDA w1 :
            IF p1.exc # "ok" THEN [w |-> w1, teardown |-> FALSE, exc |-> p1.exc]
            ELSE [w |-> [w1 EXCEPT !.h.client = queue(@, raw)],
                  teardown |-> FALSE, exc |-> ""]))))

\* ProtocolHandler.handle_events, with what ProtocolHandler.run does with its
\* result.  ready has the event of the client socket for writing (cw) and for
\* reading (cr) and of the server socket for writing (sw) and for reading (sr).
handle_events(w, ready) ==
    Let(handle_writables(w, ready.cw), LAMBDA a :
    Let(IF a.teardown \/ a.exc # "" THEN a ELSE write_to_descriptors(a.w, ready.sw), LAMBDA b :
    Let(IF b.teardown \/ b.exc # "" THEN b ELSE handle_readables(b.w, ready.cr), LAMBDA c :
    Let(IF c.teardown \/ c.exc # "" THEN c ELSE read_from_descriptors(c.w, ready.sr), LAMBDA d :
        [d.w EXCEPT !.h.status = IF d.exc = "hang" THEN "hung"
                                 ELSE IF d.exc # "" THEN "raised"
                                 ELSE IF d.teardown THEN "teardown" ELSE @,
                    !.h.exc = d.exc]))))

\* Descriptors reported ready by one select call
MaxReady == 1
\* Bytes taken by a send call that takes less than the whole buffer
MaxShortLen == 1
\* Send calls on the connection that take less than the whole buffer
MaxShortWrites == 1

NotReady == [kind |-> "none", n |-> 0]

\* What a socket registered for writing may do with a pending buffer
Sends(buffer, shorts) ==
    {[kind |-> "send", n |-> Len(buffer)], [kind |-> "error", n |-> 0]}
    \cup {[kind |-> "send", n |-> k] :
            k \in IF shorts < MaxShortWrites
                  THEN {k \in 1..MaxShortLen : k < Len(buffer)} ELSE {}}

\* What a socket registered for reading may do when its peer has sent msgs and
\* pos bytes of them were received
Recvs(msgs, pos) ==
    {[kind |-> "eof", n |-> 0], [kind |-> "error", n |-> 0]}
    \cup {[kind |-> "data", n |-> c] : c \in {c \in Cuts(msgs) : c > pos}}

\* ProtocolHandler.get_events with HttpProxyPlugin.get_descriptors: for each
\* registered event, what select may report
get_events(w) ==
    LET upstream == /\ has_upstream_server(w.h.request)
                    /\ w.h.server.exists /\ ~w.h.server.closed /\ w.h.server.connected
    IN  [cw |-> IF Len(w.h.client.buffer) > 0 THEN Sends(w.h.client.buffer, w.io.shorts) ELSE {},
         cr |-> Recvs(config.client, w.io.cpos),
         sw |-> IF upstream /\ Len(w.h.server.buffer) > 0
                THEN Sends(w.h.server.buffer, w.io.shorts) ELSE {},
         sr |-> IF upstream THEN Recvs(config.server, w.io.spos) ELSE {}]

\* The outcomes of one select call: at most MaxReady descriptors ready
selected_events(w) ==
    Let(get_events(w), LAMBDA ev :
        {r \in [cw : ev.cw \cup {NotReady}, cr : ev.cr \cup {NotReady},
                sw : ev.sw \cup {NotReady}, sr : ev.sr \cup {NotReady}] :
            Cardinality({f \in {"cw", "cr", "sw", "sr"} : r[f] # NotReady}) <= MaxReady})

\* A connection accepted: ProtocolHandler.__init__ and initialize
Init ==
    /\ scen \in 1..Len(Scenarios)
    /\ h = NewHandler
    /\ io = [cpos |-> 0, spos |-> 0, csent |-> <<>>, ssent |-> <<>>, shorts |-> 0]
    /\ log = [complete_at |-> NoInt, parsed |-> <<>>, fed |-> <<>>, hooks |-> <<>>,
              forwarded |-> <<>>,
              written |-> [calls |-> <<>>, out |-> <<>>, pending |-> <<>>, sent |-> <<>>],
              presented |-> <<>>, data |-> <<>>, read |-> <<>>,
              parse |-> [called |-> FALSE, before |-> 0, raw |-> <<>>],
              completes |-> <<>>]
    /\ pstream = 1 /\ pfed = 0 /\ pparser = HttpParser(REQUEST_PARSER)
    /\ mode = "" /\ works = <<>> /\ worker = "" /\ pending = <<>>
    /\ acc = <<>> /\ tl = <<>> /\ fn = <<>> /\ gen = <<>>

\* One iteration of ProtocolHandler.run: run_once selects and calls handle_events
run_once ==
    /\ h.status = "running"
    /\ \E ready \in selected_events([h |-> h, io |-> io, log |-> log]) :
        \E w \in {handle_events([h |-> h, io |-> io, log |-> log], ready)} :
            h' = w.h /\ io' = w.io /\ log' = w.log
    /\ UNCHANGED <<scen, pvars, wvars, xvars>>

\* ProtocolHandler.flush: select and TcpConnection.flush until the client buffer
\* is empty or send raises BrokenPipeError; n bytes are taken before that
flush_pending(w, n) ==
    [w EXCEPT !.h.client = flush(@, n),
              !.io.csent = @ \o SliceTo(w.h.client.buffer, n),
              !.io.shorts = @ + (IF n < Len(w.h.client.buffer) /\ n > 0 THEN 1 ELSE 0)]

\* ProtocolHandler.shutdown, reached from the finally of run when run_once asked
\* for teardown or an exception left it: flush, the plugins'
\* on_client_connection_close (HttpProxyPlugin closes the server socket), then
\* the client socket is shut down and closed
ProtocolHandler_shutdown ==
    /\ h.status \in {"teardown", "raised"}
    /\ \E n \in {0, Len(h.client.buffer)}
               \cup (IF io.shorts < MaxShortWrites
                     THEN {k \in 1..MaxShortLen : k < Len(h.client.buffer)} ELSE {}) :
        \E w \in {flush_pending([h |-> h, io |-> io, log |-> log], n)} :
            /\ h' = [w.h EXCEPT !.status = "closed"]
            /\ io' = w.io
            /\ log' = w.log
    /\ UNCHANGED <<scen, pvars, wvars, xvars>>

Next == run_once

Spec == Init /\ [][Next]_vars

\* ProtocolHandler.run to its end: the loop of run_once, then shutdown
run == run_once \/ ProtocolHandler_shutdown

RunSpec == Init /\ [][run]_vars


----------------------------------------------------------------------------
(* Properties of one connection *)

\* C2: in a CONNECT tunnel (TLS interception off, no sub-plugins, request
\* complete, upstream connected) the client has been sent or has pending the
\* 200 packet followed by exactly the bytes read from the server, and the server
\* has been sent or has pending exactly the bytes read from the client since the
\* request completed; none of these bytes went to an HTTP parser.
C2_TunnelRelaysVerbatim ==
    (/\ h.request.state = COMPLETE
     /\ h.request.method = CONNECT
     /\ ~config.tls_interception
     /\ config.plugins = <<>>
     /\ h.server.connected)
    => /\ io.csent \o h.client.buffer =
            PROXY_TUNNEL_ESTABLISHED_RESPONSE_PKT \o SubSeq(Concat(config.server), 1, io.spos)
       /\ io.ssent \o h.server.buffer =
            SubSeq(Concat(config.client), log.complete_at[1] + 1, io.cpos)
       /\ h.pipeline_request = <<>> /\ h.pipeline_response = <<>>
       /\ log.fed = <<<<1, log.complete_at[1]>>>>
       /\ h.response.state = INITIALIZED /\ h.response.bytes = <<>>

C2_TunnelCarriedBothWays ==
    /\ h.request.state = COMPLETE
    /\ h.request.method = CONNECT
    /\ ~config.tls_interception
    /\ config.plugins = <<>>
    /\ h.server.connected
    /\ io.ssent = <<"a", "b", "c">>
    /\ io.csent = PROXY_TUNNEL_ESTABLISHED_RESPONSE_PKT \o <<"x", "y", "z">>

\* C3: once a proxy request has completed on a connection with auth_code
\* configured, and its headers as parsed have no proxy-authorization entry or
\* one with another value, the connection is torn down with exactly the 407
\* packet pending for the client, no server connection exists, nothing was
\* queued or sent upstream, and no sub-plugin hook was invoked.
C3_AuthFailureGets407 ==
    (/\ config.auth_code # None
     /\ log.parsed # <<>>
     /\ has_upstream_server(h.request)
     /\ \/ ~has_key(log.parsed[1], <<"p", "r", "o", "x", "y", "-", "a", "u", "t", "h", "o", "r", "i", "z", "a", "t",
            "i", "o", "n">>)
        \/ header_value(log.parsed[1], <<"p", "r", "o", "x", "y", "-", "a", "u", "t", "h", "o", "r", "i", "z", "a", "t",
            "i", "o", "n">>) # config.auth_code)
    => /\ h.status = "teardown"
       /\ h.client.buffer = PROXY_AUTH_FAILED_RESPONSE_PKT
       /\ io.csent = <<>>
       /\ ~h.server.exists
       /\ h.server.buffer = <<>>
       /\ io.ssent = <<>>
       /\ log.hooks = <<>>
       /\ log.forwarded = <<>>

C3_WrongCredentialsRefused ==
    /\ config.auth_code # None
    /\ log.parsed # <<>>
    /\ has_upstream_server(h.request)
    /\ has_key(log.parsed[1], <<"p", "r", "o", "x", "y", "-", "a", "u", "t", "h", "o", "r", "i", "z", "a", "t",
            "i", "o", "n">>)
    /\ header_value(log.parsed[1], <<"p", "r", "o", "x", "y", "-", "a", "u", "t", "h", "o", "r", "i", "z", "a", "t",
            "i", "o", "n">>) # config.auth_code
    /\ h.status = "teardown"

\* C9: when the connection to the upstream of a completed proxy request could
\* not be opened, the connection is torn down with exactly the 502 packet
\* pending for the client, nothing is pending for or was sent to the upstream,
\* and the server connection is marked closed and is not registered for events.
C9_ConnectFailureGets502 ==
    (h.server.exists /\ config.connect = "fail")
    => /\ h.status = "teardown"
       /\ h.client.buffer = BAD_GATEWAY_RESPONSE_PKT
       /\ io.csent = <<>>
       /\ h.server.buffer = <<>>
       /\ io.ssent = <<>>
       /\ h.server.closed
       /\ get_events([h |-> h, io |-> io, log |-> log]).sw = {}
       /\ get_events([h |-> h, io |-> io, log |-> log]).sr = {}

C9_ConnectFailedForTunnel ==
    /\ h.server.exists
    /\ config.connect = "fail"
    /\ h.request.method = CONNECT
    /\ h.status = "teardown"

\* C10: on a connection whose client sends only absolute-form GET requests,
\* every request parser has been fed bytes of one request only: no byte of
\* request N+1 reaches the parser of request N.
C10_ParserFedOneRequestOnly ==
    (/\ ~config.tls_interception
     /\ \A i \in 1..Len(config.client) : StartsWith(config.client[i], <<"G", "E", "T", " ", "h", "t", "t", "p", ":", "/", "/">>))
    => \A k \in 1..Len(log.fed) :
           \E i \in 1..Len(config.client) :
               /\ log.fed[k][1] > Len(Concat(SubSeq(config.client, 1, i - 1)))
               /\ log.fed[k][2] <= Len(Concat(SubSeq(config.client, 1, i)))


\* C4 as stated: the first request queued upstream, which on_request_complete
\* builds, has no proxy-authorization and no proxy-connection header, has the
\* header Via: 1.1 proxy.py v1.2.0, has no header listed in disable_headers, and
\* has every other header of the request as parsed; it is what the server was
\* sent or has pending first.
C4_ForwardedHeadersWithVia ==
    (log.forwarded # <<>> /\ log.forwarded[1].by = "on_request_complete") =>
        LET f == log.forwarded[1]
            dropped == { <<"p", "r", "o", "x", "y", "-", "a", "u", "t", "h", "o", "r", "i", "z", "a", "t",
            "i", "o", "n">>, <<"p", "r", "o", "x", "y", "-", "c", "o", "n", "n", "e", "c", "t", "i", "o", "n">> }
                       \cup {config.disable_headers[j] : j \in 1..Len(config.disable_headers)}
        IN  /\ \A i \in 1..Len(f.headers) : Lower(f.headers[i][1]) \notin dropped
            /\ \E i \in 1..Len(f.headers) :
                   f.headers[i] = <<<<"V", "i", "a">>, <<"1", ".", "1", " ">> \o PROXY_AGENT_HEADER_VALUE>>
            /\ \A k \in 1..Len(log.parsed[1]) :
                   log.parsed[1][k][1] \notin dropped \cup { <<"v", "i", "a">> }
                   => \E i \in 1..Len(f.headers) :
                          f.headers[i] = <<log.parsed[1][k][2], log.parsed[1][k][3]>>
            /\ f.pkt = build_http_pkt(<<h.request.method, h.request.path, h.request.version>>,
                                      f.headers, h.request.body)
            /\ StartsWith(io.ssent \o h.server.buffer, f.pkt)

\* C4 amended: as above, but the Via header is there unless via is itself
\* listed in disable_headers.
C4_ForwardedHeadersViaUnlessDisabled ==
    (log.forwarded # <<>> /\ log.forwarded[1].by = "on_request_complete") =>
        LET f == log.forwarded[1]
            dropped == { <<"p", "r", "o", "x", "y", "-", "a", "u", "t", "h", "o", "r", "i", "z", "a", "t",
            "i", "o", "n">>, <<"p", "r", "o", "x", "y", "-", "c", "o", "n", "n", "e", "c", "t", "i", "o", "n">> }
                       \cup {config.disable_headers[j] : j \in 1..Len(config.disable_headers)}
        IN  /\ \A i \in 1..Len(f.headers) : Lower(f.headers[i][1]) \notin dropped
            /\ <<"v", "i", "a">> \notin dropped
               => \E i \in 1..Len(f.headers) :
                      f.headers[i] = <<<<"V", "i", "a">>, <<"1", ".", "1", " ">> \o PROXY_AGENT_HEADER_VALUE>>
            /\ \A k \in 1..Len(log.parsed[1]) :
                   log.parsed[1][k][1] \notin dropped \cup { <<"v", "i", "a">> }
                   => \E i \in 1..Len(f.headers) :
                          f.headers[i] = <<log.parsed[1][k][2], log.parsed[1][k][3]>>
            /\ f.pkt = build_http_pkt(<<h.request.method, h.request.path, h.request.version>>,
                                      f.headers, h.request.body)
            /\ StartsWith(io.ssent \o h.server.buffer, f.pkt)

C4_ForwardedWithoutProxyHeaders ==
    /\ log.forwarded # <<>>
    /\ log.forwarded[1].by = "on_request_complete"
    /\ has_key(log.parsed[1], <<"p", "r", "o", "x", "y", "-", "a", "u", "t", "h", "o", "r", "i", "z", "a", "t",
            "i", "o", "n">>)
    /\ has_key(log.parsed[1], <<"p", "r", "o", "x", "y", "-", "c", "o", "n", "n", "e", "c", "t", "i", "o", "n">>)
    /\ has_key(log.parsed[1], <<"a", "c", "c", "e", "p", "t">>)
    /\ config.disable_headers = <<<<"a", "c", "c", "e", "p", "t">>>>
    /\ io.ssent = log.forwarded[1].pkt

----------------------------------------------------------------------------
(* The workers: a thread per handler (ProtocolHandler.run) or one          *)
(* Threadless event loop for all of them.  Here a handler is reduced to    *)
(* the sizes of its two pending buffers and its clocks; what the bytes     *)
(* are is the subject of the connection model above.                       *)

WorkIds == {1, 2}
MaxBuffer == 1
\* config.timeout, in seconds
Timeout == 1
FlushPollWrap == 2

\* The core plugins of a handler, in declaration order
Plugins == <<"HttpProxyPlugin", "HttpWebServerPlugin">>

\* ProtocolHandler.__init__: inactive_for is time.time() - last_activity,
\* kept up to Timeout + 1; quiet is the time since a byte last moved on
\* either socket; calls is what shutdown has done so far; polls counts the
\* select calls of flush modulo FlushPollWrap
NewWork ==
    [status |-> "running", client_buffer |-> 0, server_buffer |-> 0, server |-> FALSE,
     inactive_for |-> 0, quiet |-> 0, cause |-> "", calls |-> <<>>, polls |-> 0]

connection_inactive_for(w) == w.inactive_for

is_inactive(w) == w.client_buffer = 0 /\ connection_inactive_for(w) > Timeout

NoEvent == [fd |-> "none", op |-> "", out |-> "", n |-> 0]

\* What one select can report for a handler (the descriptors of get_events),
\* each with what the socket call behind it then does
WorkEvents(w) ==
    {NoEvent}
    \cup {[fd |-> "client", op |-> "read", out |-> o, n |-> 0] :
            o \in {"error", "eof", "malformed"}
                  \cup (IF w.server_buffer < MaxBuffer THEN {"forwarded"} ELSE {})
                  \cup (IF w.client_buffer < MaxBuffer THEN {"refused"} ELSE {})}
    \cup {[fd |-> "client", op |-> "write", out |-> "sent", n |-> k] : k \in 1..w.client_buffer}
    \cup {[fd |-> "client", op |-> "write", out |-> "OSError", n |-> 0] : k \in 1..w.client_buffer}
    \cup {[fd |-> "server", op |-> "write", out |-> "sent", n |-> k] :
            k \in 1..(IF w.server THEN w.server_buffer ELSE 0)}
    \cup {[fd |-> "server", op |-> "write", out |-> "OSError", n |-> 0] :
            k \in 1..(IF w.server THEN w.server_buffer ELSE 0)}
    \cup {[fd |-> "server", op |-> "read", out |-> o, n |-> 0] :
            o \in IF w.server
                  THEN {"error", "eof"} \cup (IF w.client_buffer < MaxBuffer THEN {"data"} ELSE {})
                  ELSE {}}

\* ProtocolHandler.handle_events on buffer sizes: ret is "False", "True"
\* (teardown) or "raise" (an exception that is no ProtocolException)
work_handle_events(w, e) ==
    CASE e.fd = "client" /\ e.op = "write" ->
            IF e.out = "sent"
            THEN [w |-> [w EXCEPT !.inactive_for = 0, !.quiet = 0,
                                  !.client_buffer = @ - e.n], ret |-> "False"]
            ELSE [w |-> [w EXCEPT !.inactive_for = 0], ret |-> "True"]
      [] e.fd = "server" /\ e.op = "write" ->
            IF e.out = "sent"
            THEN [w |-> [w EXCEPT !.quiet = 0, !.server_buffer = @ - e.n], ret |-> "False"]
            ELSE [w |-> w, ret |-> "True"]
      [] e.fd = "client" /\ e.op = "read" ->
            CASE e.out = "forwarded" ->
                    [w |-> [w EXCEPT !.inactive_for = 0, !.quiet = 0, !.server = TRUE,
                                     !.server_buffer = @ + 1], ret |-> "False"]
              [] e.out = "refused" ->
                    [w |-> [w EXCEPT !.inactive_for = 0, !.quiet = 0,
                                     !.client_buffer = @ + 1], ret |-> "True"]
              [] e.out = "malformed" ->
                    [w |-> [w EXCEPT !.inactive_for = 0, !.quiet = 0], ret |-> "raise"]
              [] OTHER ->
                    [w |-> [w EXCEPT !.inactive_for = 0], ret |-> "True"]
      [] e.fd = "server" /\ e.op = "read" ->
            IF e.out = "data"
            THEN [w |-> [w EXCEPT !.quiet = 0, !.client_buffer = @ + 1], ret |-> "False"]
            ELSE [w |-> w, ret |-> "True"]
      [] OTHER -> [w |-> w, ret |-> "False"]

\* ProtocolHandler.shutdown after flush has returned: the close hooks of the
\* plugins, then the client socket is closed
shutdown_after_flush(w) ==
    [w EXCEPT !.status = "closed", !.calls = @ \o Plugins \o <<"close">>]

\* ProtocolHandler.shutdown up to the first select of flush
shutdown(w, cause) ==
    IF w.client_buffer = 0
    THEN shutdown_after_flush([w EXCEPT !.cause = cause, !.calls = <<"flush">>])
    ELSE [w EXCEPT !.cause = cause, !.calls = <<"flush">>, !.status = "flushing"]

\* What one select of flush, and the send after it, can do
FlushOutcomes(w) ==
    {[out |-> o, n |-> 0] : o \in {"timeout", "BrokenPipeError", "OSError"}}
    \cup {[out |-> "sent", n |-> k] : k \in 1..w.client_buffer}

\* One round of the loop of ProtocolHandler.flush, and the rest of shutdown
\* when the loop ends
ProtocolHandler_flush(w, o) ==
    CASE o.out = "timeout" -> [w EXCEPT !.polls = (@ + 1) % FlushPollWrap]
      [] o.out = "sent" ->
            IF w.client_buffer = o.n
            THEN shutdown_after_flush([w EXCEPT !.client_buffer = 0])
            ELSE [w EXCEPT !.client_buffer = @ - o.n, !.polls = (@ + 1) % FlushPollWrap]
      [] o.out = "BrokenPipeError" -> shutdown_after_flush(w)
      [] OTHER -> [w EXCEPT !.status = "unwound"]

\* Threadless.cleanup
cleanup(ws, work_id, cause) == [ws EXCEPT ![work_id] = shutdown(@, cause)]

\* Threadless.cleanup_inactive
cleanup_inactive(ws) ==
    [i \in WorkIds |->
        IF ws[i].status = "running" /\ is_inactive(ws[i])
        THEN shutdown(ws[i], "inactive")
        ELSE ws[i]]

\* Threadless.wait_for_tasks on the results left, then the cleanup_inactive
\* that ends Threadless.run_once; it stops where a flush waits for its select
RECURSIVE wait_for_tasks(_, _)
wait_for_tasks(ws, results) ==
    IF results = <<>>
    THEN [works |-> cleanup_inactive(ws), worker |-> "running", pending |-> <<>>]
    ELSE Let(Head(results), LAMBDA r :
            CASE r.ret = "raise" ->
                    [works |-> [ws EXCEPT ![r.id].cause = "exception"],
                     worker |-> "crashed", pending |-> <<>>]
              [] r.ret = "True" ->
                    Let(cleanup(ws, r.id, "teardown"), LAMBDA ws2 :
                        IF ws2[r.id].status = "flushing"
                        THEN [works |-> ws2, worker |-> "running", pending |-> Tail(results)]
                        ELSE wait_for_tasks(ws2, Tail(results)))
              [] OTHER -> wait_for_tasks(ws, Tail(results)))

\* The ids of ws in increasing order that are still served
RECURSIVE TaskIds(_, _)
TaskIds(ws, ids) ==
    IF ids = {} THEN <<>>
    ELSE Let(CHOOSE i \in ids : \A j \in ids : i <= j, LAMBDA i :
            (IF ws[i].status = "running" THEN <<i>> ELSE <<>>) \o TaskIds(ws, ids \ {i}))

\* The handlers accepted, each in its thread or all in one Threadless
WorkerInit ==
    /\ mode \in {"threaded", "threadless"}
    /\ works = [i \in WorkIds |-> NewWork]
    /\ worker = "running"
    /\ pending = <<>>
    /\ scen = 0 /\ h = <<>> /\ io = <<>> /\ log = <<>>
    /\ pstream = 1 /\ pfed = 0 /\ pparser = HttpParser(REQUEST_PARSER)
    /\ acc = <<>> /\ tl = <<>> /\ fn = <<>> /\ gen = <<>>

\* A second passes
Tick ==
    /\ works' = [i \in WorkIds |->
                    IF works[i].status = "running"
                    THEN [works[i] EXCEPT !.inactive_for = MinOf({@ + 1, Timeout + 1}),
                                          !.quiet = MinOf({@ + 1, Timeout + 1})]
                    ELSE works[i]]
    /\ works' # works
    /\ UNCHANGED <<mode, worker, pending, pvars, hvars, xvars>>

\* One iteration of the loop of ProtocolHandler.run in the handler's thread,
\* with the shutdown of its finally clause when the loop ends
ProtocolHandler_run(i) ==
    /\ mode = "threaded"
    /\ works[i].status = "running"
    /\ IF is_inactive(works[i])
       THEN works' = [works EXCEPT ![i] = shutdown(@, "inactive")]
       ELSE \E e \in WorkEvents(works[i]) :
                \E r \in {work_handle_events(works[i], e)} :
                    works' = [works EXCEPT ![i] =
                                CASE r.ret = "False" -> r.w
                                  [] r.ret = "True" -> shutdown(r.w, "teardown")
                                  [] OTHER -> shutdown(r.w, "exception")]
    /\ UNCHANGED <<mode, worker, pending, pvars, hvars, xvars>>

\* One round of the flush loop of a handler in shutdown; in Threadless it
\* runs inside cleanup, and wait_for_tasks goes on when shutdown returns
flush_poll(i) ==
    /\ works[i].status = "flushing"
    /\ worker = "running"
    /\ \E o \in FlushOutcomes(works[i]) :
        \E w \in {ProtocolHandler_flush(works[i], o)} :
            IF mode = "threaded" \/ w.status = "flushing"
            THEN works' = [works EXCEPT ![i] = w] /\ UNCHANGED <<worker, pending>>
            ELSE IF w.status = "unwound"
            THEN /\ works' = [works EXCEPT ![i] = w]
                 /\ worker' = "crashed"
                 /\ pending' = <<>>
            ELSE \E c \in {wait_for_tasks([works EXCEPT ![i] = w], pending)} :
                    works' = c.works /\ worker' = c.worker /\ pending' = c.pending
    /\ UNCHANGED <<mode, pvars, hvars, xvars>>

\* Threadless.run_once: one select over the events of all works, then
\* handle_events of every work, wait_for_tasks and cleanup_inactive
Threadless_run_once ==
    /\ mode = "threadless"
    /\ worker = "running"
    /\ \A i \in WorkIds : works[i].status # "flushing"
    /\ \E es \in [WorkIds -> UNION {WorkEvents(works[i]) : i \in WorkIds}] :
        /\ \A i \in WorkIds :
            es[i] \in IF works[i].status = "running" THEN WorkEvents(works[i]) ELSE {NoEvent}
        /\ \E c \in {IF \A i \in WorkIds : es[i] = NoEvent
                     THEN [works |-> cleanup_inactive(works), worker |-> "running",
                           pending |-> <<>>]
                     ELSE Let([i \in WorkIds |-> work_handle_events(works[i], es[i])],
                              LAMBDA done :
                                Let(TaskIds(works, WorkIds), LAMBDA ids :
                                    wait_for_tasks(
                                        [i \in WorkIds |-> done[i].w],
                                        [k \in 1..Len(ids) |->
                                            [id |-> ids[k], ret |-> done[ids[k]].ret]])))} :
            works' = c.works /\ worker' = c.worker /\ pending' = c.pending
    /\ UNCHANGED <<mode, pvars, hvars, xvars>>

WorkerNext ==
    \/ Tick
    \/ \E i \in WorkIds : ProtocolHandler_run(i)
    \/ \E i \in WorkIds : flush_poll(i)
    \/ Threadless_run_once

WorkerSpec == WorkerInit /\ [][WorkerNext]_vars

\* The threads of the handlers and the Threadless process are scheduled;
\* nothing is assumed of the sockets or of the clock
FairWorkerSpec ==
    /\ WorkerSpec
    /\ \A i \in WorkIds : WF_vars(ProtocolHandler_run(i)) /\ WF_vars(flush_poll(i))
    /\ WF_vars(Threadless_run_once)

----------------------------------------------------------------------------
(* Properties of the workers *)

\* C5: an exception raised while a connection is handled tears down that
\* connection only: the worker keeps running, in threaded and in threadless
\* mode alike, and the connection that raised goes through shutdown
C5_ExceptionTearsDownOnlyItsConnection ==
    \A i \in WorkIds :
        works[i].cause = "exception" =>
            /\ worker = "running"
            /\ works[i].status # "running"

\* C6: once shutdown of a handler has returned or has been unwound, it has
\* attempted the flush, then called on_client_connection_close once on every
\* core plugin in declaration order, then closed the client socket
C6_ShutdownFlushesThenHooksThenCloses ==
    \A i \in WorkIds :
        (works[i].calls # <<>> /\ works[i].status # "flushing") =>
            works[i].calls = <<"flush">> \o Plugins \o <<"close">>

\* C7: a shutdown that has started its flush ends, whatever the client
\* socket does
C7_ShutdownTerminates ==
    \A i \in WorkIds :
        [](works[i].status = "flushing" => <>(works[i].status # "flushing"))

\* C8: a handler torn down for inactivity had no client bytes pending and
\* had seen no byte move on either socket for longer than config.timeout
C8_InactiveTeardownOnlyWhenQuiet ==
    \A i \in WorkIds :
        works[i].cause = "inactive" =>
            works[i].client_buffer = 0 /\ works[i].quiet > Timeout

----------------------------------------------------------------------------
(* The Acceptor processes: they share the listening socket and the class   *)
(* attribute Acceptor.lock.                                                *)

AcceptorIds == {1, 2}
MaxConnections == 4

\* An acceptor is "idle" (at the top of run_once), in "select" (inside the
\* with self.lock block) or in "accept" (past it).  lock is its holder or 0,
\* backlog the connections waiting on the listening socket, started the
\* connections handed to a work so far.
AcceptorInit ==
    /\ acc = [at |-> [a \in AcceptorIds |-> "idle"], lock |-> 0, backlog |-> 0,
              arrived |-> 0, started |-> 0]
    /\ tl = <<>> /\ fn = <<>> /\ gen = <<>>
    /\ scen = 0 /\ h = <<>> /\ io = <<>> /\ log = <<>>
    /\ mode = "" /\ works = <<>> /\ worker = "" /\ pending = <<>>
    /\ pstream = 1 /\ pfed = 0 /\ pparser = HttpParser(REQUEST_PARSER)

\* A client connects to the listening socket
ClientConnects ==
    /\ acc.arrived < MaxConnections
    /\ acc' = [acc EXCEPT !.backlog = @ + 1, !.arrived = @ + 1]
    /\ UNCHANGED <<tl, fn, gen, pvars, hvars, wvars>>

\* Acceptor.run_once: with self.lock is entered
Acceptor_lock(a) ==
    /\ acc.at[a] = "idle"
    /\ acc.lock = 0
    /\ acc' = [acc EXCEPT !.lock = a, !.at[a] = "select"]
    /\ UNCHANGED <<tl, fn, gen, pvars, hvars, wvars>>

\* Acceptor.run_once: select returns, with the listening socket readable or
\* after its timeout, and the with block is left
Acceptor_select(a) ==
    /\ acc.at[a] = "select"
    /\ acc' = [acc EXCEPT !.lock = 0,
                          !.at[a] = IF acc.backlog > 0 THEN "accept" ELSE "idle"]
    /\ UNCHANGED <<tl, fn, gen, pvars, hvars, wvars>>

\* Acceptor.run_once: accept on the non-blocking listening socket, and the
\* connection is handed to a work; BlockingIOError when nothing waits
Acceptor_accept(a) ==
    /\ acc.at[a] = "accept"
    /\ acc' = IF acc.backlog > 0
              THEN [acc EXCEPT !.at[a] = "idle", !.backlog = @ - 1, !.started = @ + 1]
              ELSE [acc EXCEPT !.at[a] = "idle"]
    /\ UNCHANGED <<tl, fn, gen, pvars, hvars, wvars>>

AcceptorNext ==
    \/ ClientConnects
    \/ \E a \in AcceptorIds : Acceptor_lock(a)
    \/ \E a \in AcceptorIds : Acceptor_select(a)
    \/ \E a \in AcceptorIds : Acceptor_accept(a)

AcceptorSpec == AcceptorInit /\ [][AcceptorNext]_vars

\* C11: no two acceptors are in accept() on the listening socket at once
C11_AcceptSerialized ==
    \A a, b \in AcceptorIds :
        (acc.at[a] = "accept" /\ acc.at[b] = "accept") => a = b

----------------------------------------------------------------------------
(* The Threadless process with the descriptors it holds.  Descriptor       *)
(* numbers are handed out lowest free first; the numbers of the process's  *)
(* own pipe, selector and event loop lie below 1.                          *)

MaxFd == 7
MaxAccepted == 3

\* The lowest descriptor number not in use
LowestFree(used) == MinOf((1..(MaxFd + 3)) \ used)

\* The descriptors open in the process: of its handlers, and of objects no
\* longer referenced that the garbage collector has not yet finalized
UsedFds(t) ==
    t.garbage \cup UNION {{t.works[i].sel, t.works[i].sock} : i \in 1..Len(t.works)}

\* Threadless.accept_client: recv_handle receives the descriptor through a
\* temporary duplicate of the pipe, ProtocolHandler.__init__ opens its
\* selector and duplicates the descriptor (fromfd), and the received
\* descriptor, the key in self.works, is closed.  works is the dict in
\* insertion order: assigning to a key that is present replaces its value
accept_client(t) ==
    Let(UsedFds(t), LAMBDA used :
    Let(LowestFree(used), LAMBDA temp :
    Let(LowestFree(used \cup {temp}), LAMBDA fileno :
    Let(LowestFree(used \cup {fileno}), LAMBDA sel :
    Let([key |-> fileno, conn |-> Head(t.pipe), sel |-> sel,
         sock |-> LowestFree(used \cup {fileno, sel}),
         inactive |-> FALSE, step |-> 0, served |-> FALSE], LAMBDA work :
        IF \E i \in 1..Len(t.works) : t.works[i].key = fileno
        THEN Let(CHOOSE i \in 1..Len(t.works) : t.works[i].key = fileno, LAMBDA i :
                [t EXCEPT !.pipe = Tail(@),
                          !.works[i] = work,
                          !.lost = @ \cup {t.works[i].conn},
                          !.garbage = @ \cup {t.works[i].sel, t.works[i].sock}])
        ELSE [t EXCEPT !.pipe = Tail(@), !.works = Append(@, work)])))))

\* Threadless.cleanup of the work with this key: ProtocolHandler.shutdown
\* closes the client socket, and the work leaves self.works;
\* its selector stays open until the handler object is finalized
Threadless_cleanup(t, key) ==
    Let(CHOOSE i \in 1..Len(t.works) : t.works[i].key = key, LAMBDA i :
        [t EXCEPT !.works = SubSeq(@, 1, i - 1) \o SubSeq(@, i + 1, Len(@)),
                  !.closed = @ \cup {[conn |-> t.works[i].conn,
                                       inactive |-> t.works[i].inactive]},
                  !.garbage = @ \cup {t.works[i].sel}])

\* Threadless.cleanup_inactive without its loop over the inactive works
Threadless_cleanup_inactive_skipped(t) == t

\* Threadless.cleanup_inactive
RECURSIVE Threadless_cleanup_inactive(_)
Threadless_cleanup_inactive(t) ==
    IF \E i \in 1..Len(t.works) : t.works[i].inactive
    THEN Let(CHOOSE i \in 1..Len(t.works) :
                /\ t.works[i].inactive
                /\ \A j \in 1..(i - 1) : ~t.works[j].inactive, LAMBDA i :
            Threadless_cleanup_inactive(Threadless_cleanup(t, t.works[i].key)))
    ELSE t

\* What select can report for a work, by what its handle_events then does:
\* "data" is client traffic that is served without an upstream socket,
\* "teardown" a step that returns True, "slow" a step that returns False
\* after more than Timeout seconds
WorkReady == {"none", "data", "teardown", "slow"}

\* Threadless.handle_events of the work at position i
Threadless_handle_events(t, i, e) ==
    CASE e = "data" ->
            [t EXCEPT !.works[i].inactive = FALSE, !.works[i].step = 0,
                      !.works[i].served = TRUE]
      [] e = "slow" ->
            [t EXCEPT !.works[i].inactive = FALSE, !.works[i].step = Timeout + 1,
                      !.works[i].served = TRUE,
                      !.blocked = @ + Timeout + 1]
      [] e = "teardown" -> [t EXCEPT !.works[i].inactive = FALSE, !.works[i].step = 0]
      [] OTHER -> [t EXCEPT !.works[i].step = 0]

\* The tasks of Threadless.run_once from position i on: each runs
\* handle_events of the work that is under its key when it runs, with the
\* events selected before accept_client; down collects the keys to clean up
RECURSIVE Threadless_tasks(_, _, _, _, _)
Threadless_tasks(t, i, tasks, evs, down) ==
    IF i > Len(tasks) THEN [t |-> t, down |-> down]
    ELSE Let(IF t.works[i].conn = tasks[i] THEN evs[i] ELSE "none", LAMBDA e :
            Threadless_tasks(Threadless_handle_events(t, i, e), i + 1, tasks, evs,
                             IF e = "teardown" THEN Append(down, t.works[i].key) ELSE down))

\* Threadless.wait_for_tasks: cleanup of the works whose task returned True
RECURSIVE Threadless_wait_for_tasks(_, _)
Threadless_wait_for_tasks(t, down) ==
    IF down = <<>> THEN t
    ELSE Threadless_wait_for_tasks(Threadless_cleanup(t, Head(down)), Tail(down))

\* The Threadless process started by its Acceptor, with no work yet.  pipe
\* holds the connections sent by the Acceptor and not yet received, closed
\* the connections whose handler went through shutdown (and whether it was
\* inactive then), lost those whose handler left self.works without it,
\* blocked the seconds the last run_once spent in handle_events; a work is
\* served once it had a handle_events step, and step is what its
\* handle_events took in the last run_once.  accepting is the Acceptor's
\* "while self.running" loop being under way, sock its listening socket, and
\* running the Threadless process being inside "while True" of its run
ThreadlessInit ==
    /\ tl = [works |-> <<>>, garbage |-> {}, pipe |-> <<>>, sent |-> 0, closed |-> {},
             lost |-> {}, blocked |-> 0, accepting |-> TRUE, sock |-> "open",
             running |-> TRUE]
    /\ acc = <<>> /\ fn = <<>> /\ gen = <<>>
    /\ scen = 0 /\ h = <<>> /\ io = <<>> /\ log = <<>>
    /\ mode = "" /\ works = <<>> /\ worker = "" /\ pending = <<>>
    /\ pstream = 1 /\ pfed = 0 /\ pparser = HttpParser(REQUEST_PARSER)

\* Acceptor.run_once sends an accepted connection over the pipe
Acceptor_send_handle ==
    /\ tl.accepting
    /\ tl.sent < MaxAccepted
    /\ tl' = [tl EXCEPT !.sent = @ + 1, !.pipe = Append(@, tl.sent + 1)]
    /\ UNCHANGED <<acc, fn, gen, pvars, hvars, wvars>>

\* A work with nothing pending for its client passes its inactivity deadline
Expire(i) ==
    /\ i \in 1..Len(tl.works)
    /\ ~tl.works[i].inactive
    /\ tl' = [tl EXCEPT !.works[i].inactive = TRUE]
    /\ UNCHANGED <<acc, fn, gen, pvars, hvars, wvars>>

\* The garbage collector finalizes the unreferenced handlers: their
\* selectors and sockets are closed
Collect ==
    /\ tl.garbage # {}
    /\ tl' = [tl EXCEPT !.garbage = {}]
    /\ UNCHANGED <<acc, fn, gen, pvars, hvars, wvars>>

\* Threadless.run_once: select; cleanup_inactive when nothing is ready;
\* otherwise a task per work, accept_client when the pipe is readable,
\* wait_for_tasks, cleanup_inactive
Threadless_round ==
    /\ tl.running
    /\ \E readable \in {q \in BOOLEAN : q => tl.pipe # <<>>} :
        \E evs \in [1..Len(tl.works) -> WorkReady] :
            /\ Cardinality({i \in 1..Len(tl.works) : evs[i] # "none"})
                    + (IF readable THEN 1 ELSE 0) <= MaxReady
            /\ \E t \in {IF ~readable /\ \A i \in 1..Len(tl.works) : evs[i] = "none"
                         THEN Threadless_cleanup_inactive(
                                [tl EXCEPT !.blocked = 0,
                                           !.works = [i \in 1..Len(tl.works) |->
                                                        [tl.works[i] EXCEPT !.step = 0]]])
                         ELSE Let(Threadless_tasks(
                                    IF readable THEN accept_client([tl EXCEPT !.blocked = 0])
                                             ELSE [tl EXCEPT !.blocked = 0],
                                    1, [i \in 1..Len(tl.works) |-> tl.works[i].conn],
                                    evs, <<>>), LAMBDA r :
                                Threadless_cleanup_inactive(
                                    Threadless_wait_for_tasks(r.t, r.down)))} :
                /\ UsedFds(t) \subseteq 1..MaxFd
                /\ tl' = t
            /\ UNCHANGED <<acc, fn, gen, pvars, hvars, wvars>>

\* KeyboardInterrupt in Acceptor.run: the except clause ends the accept loop
\* and the finally clause unregisters the listening socket
Acceptor_KeyboardInterrupt ==
    /\ tl.accepting
    /\ tl' = [tl EXCEPT !.accepting = FALSE]
    /\ UNCHANGED <<acc, fn, gen, pvars, hvars, wvars>>

\* KeyboardInterrupt in Threadless.run: the except clause passes and the
\* finally clause unregisters and closes client_queue and closes the loop;
\* self.works is not looked at, and the process ends with run
Threadless_KeyboardInterrupt ==
    /\ tl.running
    /\ tl' = [tl EXCEPT !.running = FALSE]
    /\ UNCHANGED <<acc, fn, gen, pvars, hvars, wvars>>

\* The rest of the finally clause of Acceptor.run: shutdown_threadless_process
\* joins the Threadless process, then the listening socket is closed
Acceptor_finally ==
    /\ ~tl.accepting /\ ~tl.running /\ tl.sock = "open"
    /\ tl' = [tl EXCEPT !.sock = "closed"]
    /\ UNCHANGED <<acc, fn, gen, pvars, hvars, wvars>>

ThreadlessNext ==
    \/ Acceptor_send_handle
    \/ \E i \in 1..MaxAccepted : Expire(i)
    \/ Collect
    \/ Threadless_round
    \/ Acceptor_KeyboardInterrupt
    \/ Threadless_KeyboardInterrupt
    \/ Acceptor_finally

ThreadlessSpec == ThreadlessInit /\ [][ThreadlessNext]_vars

\* C12: every connection accepted by the Threadless worker is owned by
\* exactly one handler in self.works until that handler has been shut down
C12_AcceptedOwnedUntilShutdown ==
    \A c \in 1..tl.sent :
        \/ \E k \in 1..Len(tl.pipe) : tl.pipe[k] = c
        \/ \E k \in tl.closed : k.conn = c
        \/ Cardinality({i \in 1..Len(tl.works) : tl.works[i].conn = c}) = 1

C14_SlowStepTornDownAtDeadline ==
    /\ \A i \in 1..Len(tl.works) : tl.works[i].step <= Timeout
    /\ tl.blocked <= Timeout

----------------------------------------------------------------------------
(* Pure functions applied to inputs drawn from bounded sets: fn holds the
   input, and after the call its result *)

MaxLen == 3
MaxChunk == 3

\* The inputs of to_chunks: the byte buffers up to MaxLen over a letter, CR
\* and LF, and three buffers whose chunk length takes a hexadecimal letter
\* or two digits; the chunk sizes
ChunkInputs ==
    {[op |-> "to_chunks", raw |-> b, chunk_size |-> k, done |-> FALSE,
      cp |-> NewChunkParser(FALSE), rest |-> <<>>] :
        b \in UNION {[1..n -> {"a", "\r", "\n"}] : n \in 0..MaxLen}
                \cup {[i \in 1..n |-> "a"] : n \in {10, 16, 17}},
        k \in (1..MaxChunk) \cup {16, DEFAULT_BUFFER_SIZE}}

\* ChunkParser().parse(ChunkParser.to_chunks(raw, chunk_size))
ChunkRoundTrip ==
    /\ fn.op = "to_chunks" /\ ~fn.done
    /\ \E r \in {ChunkParser_parse(fn.cp, to_chunks(fn.raw, fn.chunk_size))} :
        fn' = [fn EXCEPT !.done = TRUE, !.cp = r.cp, !.rest = r.raw]
    /\ UNCHANGED <<acc, tl, gen, pvars, hvars, wvars>>

\* C15: for every buffer B and chunk size k >= 1, one parse call on
\* to_chunks(B, k) by a fresh ChunkParser ends in state COMPLETE with body B
\* and returns no remainder
C15_ChunkRoundTrip ==
    (fn.op = "to_chunks" /\ fn.done) =>
        /\ fn.cp.exc = "ok"
        /\ fn.cp.state = CHUNK_COMPLETE
        /\ fn.cp.body = fn.raw
        /\ fn.rest = <<>>

\* A buffer with a CR LF in it was cut into more than one chunk and parsed
C15_BufferWithCRLFParsed ==
    /\ fn.op = "to_chunks" /\ fn.done
    /\ Find(fn.raw, CRLF) # 0
    /\ Len(fn.raw) > fn.chunk_size

MaxFeedLen == 2

\* The inputs of a ChunkParser fed piece by piece: the buffers up to
\* MaxFeedLen over a letter, CR and LF and one whose chunk length is a
\* hexadecimal letter; pos bytes of to_chunks(raw, chunk_size) have been fed
FeedInputs ==
    {[op |-> "feed", raw |-> b, chunk_size |-> k, pos |-> 0, cp |-> NewChunkParser(FALSE)] :
        b \in UNION {[1..n -> {"a", "\r", "\n"}] : n \in 0..MaxFeedLen}
                \cup {[i \in 1..10 |-> "a"]},
        k \in (1..MaxFeedLen) \cup {16}}

\* One parse call of the ChunkParser with the next n bytes of
\* to_chunks(raw, chunk_size)
ChunkFeed ==
    /\ fn.op = "feed" /\ fn.cp.exc = "ok"
    /\ \E enc \in {to_chunks(fn.raw, fn.chunk_size)} :
        \E n \in 1..(Len(enc) - fn.pos) :
            \E r \in {ChunkParser_parse(fn.cp, SubSeq(enc, fn.pos + 1, fn.pos + n))} :
                fn' = [fn EXCEPT !.pos = fn.pos + n, !.cp = r.cp]
    /\ UNCHANGED <<acc, tl, gen, pvars, hvars, wvars>>

----------------------------------------------------------------------------
(* WebsocketFrame: bytes are integers 0..255 here *)

\* None where bytes are expected (self.mask, self.data)
NoBytes == <<-1>>

\* WebsocketFrame.__init__
WebsocketFrame ==
    [fin |-> FALSE, rsv1 |-> FALSE, rsv2 |-> FALSE, rsv3 |-> FALSE, opcode |-> 0,
     masked |-> FALSE, payload_length |-> NoInt, mask |-> NoBytes, data |-> NoBytes]

\* a ^ b on bytes
RECURSIVE Xor(_, _)
Xor(a, b) ==
    IF a = 0 THEN b
    ELSE IF b = 0 THEN a
    ELSE 2 * Xor(a \div 2, b \div 2) + ((a + b) % 2)

\* WebsocketFrame.apply_mask
apply_mask(data, mask) == [i \in 1..Len(data) |-> Xor(data[i], mask[((i - 1) % 4) + 1])]

\* struct.pack('!H', n), struct.pack('!Q', n) and their unpack
RECURSIVE pack(_, _)
pack(n, width) == IF width = 0 THEN <<>> ELSE pack(n \div 256, width - 1) \o <<n % 256>>
RECURSIVE unpack(_)
unpack(data) ==
    IF data = <<>> THEN 0 ELSE unpack(SubSeq(data, 1, Len(data) - 1)) * 256 + data[Len(data)]

\* WebsocketFrame.build with token the value of secrets.token_bytes(4): the
\* frame after the call (payload_length is filled in), the bytes, and the
\* exception that left the call.  opcode is below 16, so | adds; lengths
\* are below 1 << 64, and from 1 << 16 on struct.pack('!BHQ', ...) is given
\* two values for three formats
WebsocketFrame_build(f, token) ==
    Let(IF f.payload_length = NoInt /\ f.data # NoBytes /\ f.data # <<>>
        THEN <<Len(f.data)>> ELSE f.payload_length, LAMBDA pl :
    Let([f EXCEPT !.payload_length = pl], LAMBDA g :
    Let(<<(IF f.fin THEN 128 ELSE 0) + (IF f.rsv1 THEN 64 ELSE 0)
            + (IF f.rsv2 THEN 32 ELSE 0) + (IF f.rsv3 THEN 16 ELSE 0) + f.opcode>>,
        LAMBDA first :
    Let(IF f.masked THEN 128 ELSE 0, LAMBDA mbit :
        IF pl = NoInt THEN [f |-> g, raw |-> <<>>, exc |-> "AssertionError"]
        ELSE IF pl[1] >= 65536
        THEN [f |-> g, raw |-> <<>>, exc |-> "struct.error"]
        ELSE Let(first \o (IF pl[1] < 126 THEN <<mbit + pl[1]>>
                           ELSE <<mbit + 126>> \o pack(pl[1], 2)), LAMBDA head :
                [f |-> g, exc |-> "ok",
                 raw |-> IF f.masked /\ f.data # NoBytes /\ f.data # <<>>
                         THEN Let(IF f.mask = NoBytes THEN token ELSE f.mask, LAMBDA mask :
                                    head \o mask \o apply_mask(f.data, mask))
                         ELSE IF f.data # NoBytes /\ f.data # <<>> THEN head \o f.data
                         ELSE head])))))

\* WebsocketFrame.parse_fin_and_rsv
parse_fin_and_rsv(f, byte) ==
    [f EXCEPT !.fin = (byte \div 128) % 2 = 1, !.rsv1 = (byte \div 64) % 2 = 1,
              !.rsv2 = (byte \div 32) % 2 = 1, !.rsv3 = (byte \div 16) % 2 = 1,
              !.opcode = byte % 16]

\* WebsocketFrame.parse_mask_and_payload
parse_mask_and_payload(f, byte) ==
    [f EXCEPT !.masked = byte >= 128, !.payload_length = <<byte % 128>>]

\* WebsocketFrame.parse: the frame after the call, the bytes it returns, and
\* the exception that left the call
WebsocketFrame_parse(f, raw) ==
    IF Len(raw) < 2 THEN [f |-> f, tail |-> <<>>, exc |-> "IndexError"]
    ELSE
    Let(parse_mask_and_payload(parse_fin_and_rsv(f, raw[1]), raw[2]), LAMBDA f1 :
    Let(CASE f1.payload_length[1] = 126 -> 2 [] f1.payload_length[1] = 127 -> 8 [] OTHER -> 0,
        LAMBDA ext :
        IF Len(raw) < 2 + ext THEN [f |-> f1, tail |-> <<>>, exc |-> "struct.error"]
        ELSE
        Let(IF ext = 0 THEN f1
            ELSE [f1 EXCEPT !.payload_length = <<unpack(SubSeq(raw, 3, 2 + ext))>>], LAMBDA f2 :
        Let(IF f2.masked
            THEN [f2 EXCEPT !.mask = SubSeq(raw, 3 + ext, MinOf({Len(raw), 6 + ext}))]
            ELSE f2, LAMBDA f3 :
        Let(2 + ext + (IF f3.masked THEN 4 ELSE 0), LAMBDA cur :
            IF f3.payload_length[1] = 0 THEN [f |-> f3, tail |-> <<>>, exc |-> "AssertionError"]
            ELSE Let(SubSeq(raw, cur + 1, MinOf({Len(raw), cur + f3.payload_length[1]})),
                     LAMBDA data :
                    IF f3.masked /\ Len(f3.mask) < 4 /\ data # <<>>
                    THEN [f |-> [f3 EXCEPT !.data = data], tail |-> <<>>, exc |-> "IndexError"]
                    ELSE [f |-> [f3 EXCEPT !.data = IF f3.masked
                                                   THEN apply_mask(data, f3.mask) ELSE data],
                          tail |-> SubSeq(raw, cur + f3.payload_length[1] + 1, Len(raw)),
                          exc |-> "ok"]))))))

MaxPayload == 2

\* The values of secrets.token_bytes(4)
Masks == {<<1, 2, 3, 255>>, <<0, 0, 0, 0>>}

\* The frames built, a fresh WebsocketFrame with its fields assigned: every
\* payload of up to MaxPayload bytes over three byte values with every
\* header, payload_length left None or set for the empty payload, and
\* payloads around the 7-bit and 16-bit length encodings
Frames ==
    {[WebsocketFrame EXCEPT !.fin = b[1], !.rsv1 = b[2], !.rsv2 = b[3], !.rsv3 = b[4],
                            !.opcode = o, !.masked = m, !.mask = k, !.data = d,
                            !.payload_length = pl] :
        b \in [1..4 -> BOOLEAN], o \in 0..15, m \in BOOLEAN, k \in {NoBytes, <<1, 2, 3, 255>>},
        d \in UNION {[1..n -> {0, 97, 255}] : n \in 0..MaxPayload}, pl \in {NoInt}}
    \cup
    {[WebsocketFrame EXCEPT !.fin = b, !.opcode = o, !.masked = m, !.data = <<>>,
                            !.payload_length = <<0>>] :
        b \in BOOLEAN, o \in 0..15, m \in BOOLEAN}
    \cup
    {[WebsocketFrame EXCEPT !.fin = TRUE, !.opcode = 2, !.masked = m,
                            !.data = [i \in 1..n |-> (i * 7) % 256]] :
        m \in BOOLEAN, n \in {125, 126, 127, 65536}}

\* The payload lengths given to build on a frame without data: around the
\* 7-bit, 16-bit and 64-bit length encodings
Lengths == {0, 1, 125, 126, 127, 255, 256, 65535, 65536, 65537, 16777216}

FnInit ==
    /\ fn \in ChunkInputs \cup FeedInputs
            \cup {[op |-> "build", frame |-> f, done |-> FALSE, parsed |-> WebsocketFrame,
                   tail |-> <<>>, exc |-> "ok"] : f \in Frames}
            \cup {[op |-> "length",
                   frame |-> [WebsocketFrame EXCEPT !.fin = TRUE, !.opcode = o, !.masked = m,
                                                    !.payload_length = <<n>>],
                   done |-> FALSE, raw |-> <<>>, exc |-> "ok"] :
                     o \in {1, 2}, m \in BOOLEAN, n \in Lengths}
    /\ acc = <<>> /\ tl = <<>> /\ gen = <<>>
    /\ scen = 0 /\ h = <<>> /\ io = <<>> /\ log = <<>>
    /\ mode = "" /\ works = <<>> /\ worker = "" /\ pending = <<>>
    /\ pstream = 1 /\ pfed = 0 /\ pparser = HttpParser(REQUEST_PARSER)

\* WebsocketFrame().parse(frame.build())
FrameRoundTrip ==
    /\ fn.op = "build" /\ ~fn.done
    /\ \E token \in Masks :
        \E b \in {WebsocketFrame_build(fn.frame, token)} :
            IF b.exc # "ok"
            THEN fn' = [fn EXCEPT !.done = TRUE, !.exc = b.exc]
            ELSE \E p \in {WebsocketFrame_parse(WebsocketFrame, b.raw)} :
                    fn' = [fn EXCEPT !.done = TRUE, !.parsed = p.f, !.tail = p.tail,
                                     !.exc = p.exc]
    /\ UNCHANGED <<acc, tl, gen, pvars, hvars, wvars>>

\* frame.payload_length = n; frame.build()
BuildLength ==
    /\ fn.op = "length" /\ ~fn.done
    /\ \E token \in Masks :
        \E b \in {WebsocketFrame_build(fn.frame, token)} :
            fn' = [fn EXCEPT !.done = TRUE, !.raw = b.raw, !.exc = b.exc]
    /\ UNCHANGED <<acc, tl, gen, pvars, hvars, wvars>>

FnNext ==
    \/ ChunkRoundTrip
    \/ ChunkFeed
    \/ FrameRoundTrip
    \/ BuildLength

FnSpec == FnInit /\ [][FnNext]_vars

\* C16: for every frame F, parse(F.build()) succeeds, returns an empty tail
\* and yields a frame equal to F in fin, rsv1-3, opcode, masked, payload
\* length and (unmasked) payload
C16_FrameRoundTrip ==
    (fn.op = "build" /\ fn.done) =>
        /\ fn.exc = "ok"
        /\ fn.tail = <<>>
        /\ fn.parsed.fin = fn.frame.fin
        /\ fn.parsed.rsv1 = fn.frame.rsv1
        /\ fn.parsed.rsv2 = fn.frame.rsv2
        /\ fn.parsed.rsv3 = fn.frame.rsv3
        /\ fn.parsed.opcode = fn.frame.opcode
        /\ fn.parsed.masked = fn.frame.masked
        /\ fn.parsed.payload_length = <<Len(fn.frame.data)>>
        /\ fn.parsed.data = fn.frame.data

----------------------------------------------------------------------------
(* The parser on malformed input, bodies with a Content-Length, and
   repeated headers: properties over ParserSpec *)

\* C17: when the headers of the stream carry Content-Length: n, the parser
\* is COMPLETE exactly when the n bytes after the blank line have been fed,
\* its body is then those n bytes, and the bytes fed beyond them are in its
\* buffer
C17_ContentLengthBodyExact ==
    LET s == ParserStreams[pstream].bytes
        he == Find(s, CRLF \o CRLF) + 3
        hp == parse(HttpParser(ParserStreams[pstream].type), SubSeq(s, 1, he))
        n == ParseInt(header(hp, content_length), 10)
    IN  (he > 3 /\ pparser.exc = "ok" /\ has_header(hp, content_length) /\ n.ok) =>
            /\ (pparser.state = COMPLETE) <=> (pfed >= he + n.v)
            /\ pparser.state = COMPLETE =>
                /\ pparser.body = SubSeq(s, he + 1, he + n.v)
                /\ pparser.buffer = SubSeq(s, he + n.v + 1, pfed)

\* C18: a header stored under a name keeps the original-case name and the
\* value of its first occurrence when the name occurs again, and header()
\* and has_header() find every stored header under any letter case
C18_FirstOccurrenceKept ==
    [][/\ \A i \in 1..Len(pparser.headers) :
            /\ i <= Len(pparser'.headers)
            /\ pparser'.headers[i] = pparser.headers[i]
       /\ \A i \in 1..Len(pparser'.headers) :
            \A key \in {Upper(pparser'.headers[i][2]), Lower(pparser'.headers[i][2])} :
                /\ has_header(pparser', key)
                /\ header(pparser', key) = pparser'.headers[i][3]]_vars

\* C19: no exception leaves HttpParser.parse, whatever the bytes, and the
\* parser is in one of its six states
C19_ParseNeverRaises ==
    /\ pparser.exc = "ok"
    /\ pparser.state \in INITIALIZED..COMPLETE

----------------------------------------------------------------------------
(* The buffers of the client and the server connection of a handler *)

\* C20: flush takes the bytes the socket accepted off the front of the
\* pending buffer and leaves the rest in order, and queue appends: on each
\* connection the bytes sent followed by the bytes pending only ever grow at
\* the end, and the bytes sent are a prefix of everything queued
C20_FlushKeepsPendingOrder ==
    [][/\ StartsWith(io'.csent, io.csent)
       /\ StartsWith(io'.csent \o h'.client.buffer, io.csent \o h.client.buffer)
       /\ StartsWith(io'.ssent, io.ssent)
       /\ StartsWith(io'.ssent \o h'.server.buffer, io.ssent \o h.server.buffer)]_vars

\* The client socket accepted a part of the pending buffer, the rest is
\* still pending
C20_PartOfBufferPending ==
    /\ io.shorts > 0
    /\ io.csent # <<>>
    /\ h.client.buffer # <<>>


\* C21: once the closed flag of a connection is set, no later step sends on it
\* or receives from it: the bytes sent to the client and the bytes read from
\* the client stay as they are once client.closed is set, and likewise for the
\* server connection, the flush of shutdown included.
C21_NoTransferAfterClosed ==
    [][/\ h.client.closed => (io'.csent = io.csent /\ io'.cpos = io.cpos)
       /\ h.server.closed => (io'.ssent = io.ssent /\ io'.spos = io.spos)]_vars


\* C26: when the client socket was writable with bytes pending, the core
\* plugins' on_response_chunk were called left to right starting from the
\* pending bytes, each with the chunk the previous one returned and none after
\* a plugin that returned None; the bytes written are (the start of) the chunk
\* the last plugin returned, or of the pending bytes when a plugin returned None.
C26_WrittenIsPipelineOutput ==
    LET r == log.written
    IN  r.calls # <<>> =>
            /\ r.calls[1].chunk = r.pending
            /\ \A k \in 1..Len(r.calls) :
                    /\ r.calls[k].plugin = k
                    /\ k < Len(r.calls) =>
                           r.calls[k + 1].chunk = on_response_chunk(ProtocolHandlerPlugins[k],
                                                                    r.calls[k].chunk)
            /\ IF r.out = None
               THEN /\ on_response_chunk(ProtocolHandlerPlugins[Len(r.calls)],
                                         r.calls[Len(r.calls)].chunk) = None
                    /\ StartsWith(r.pending, r.sent)
               ELSE /\ Len(r.calls) = Len(ProtocolHandlerPlugins)
                    /\ StartsWith(r.out, r.sent)



\* C27: on a connection with a sub-plugin that returns None from
\* handle_client_request, whose client sends GET requests for an upstream, the
\* first of them read on its own: no
\* byte is queued or sent upstream, no sub-plugin after that one is called
\* with a request, and the k-th request handed to the first sub-plugin is the
\* k-th request the client sent.
C27_DroppedRequestThenNextDispatched ==
    LET drops == {i \in 1..Len(config.plugins) : config.plugins[i] = "drop"}
        dispatched == SelectSeq(log.hooks, LAMBDA c : c.hook = "handle_client_request"
                                                      /\ c.plugin = 1)
    IN  (/\ drops # {} /\ ~config.tls_interception
         /\ log.complete_at # <<>> /\ log.complete_at[1] = Len(config.client[1])) =>
            /\ h.server.buffer = <<>> /\ io.ssent = <<>>
            /\ \A k \in 1..Len(log.hooks) :
                    log.hooks[k].hook = "handle_client_request"
                    => log.hooks[k].plugin <= MinOf(drops)
            /\ Len(dispatched) <= Len(config.client)
            /\ \A k \in 1..Len(dispatched) :
                    dispatched[k].path = parse(HttpParser(REQUEST_PARSER), config.client[k]).path



\* C28: once a request for an upstream has completed on a connection with a
\* sub-plugin that returns None from before_upstream_connection, no server
\* connection exists, no sub-plugin after that one had
\* before_upstream_connection called, nothing was queued for or sent to a
\* server, and no exception left on_request_complete.
C28_SkippedConnectCompletes ==
    LET skips == {i \in 1..Len(config.plugins) : config.plugins[i] = "skip"}
    IN  (skips # {} /\ log.complete_at # <<>> /\ has_upstream_server(h.request)) =>
            /\ ~h.server.exists
            /\ \A k \in 1..Len(log.hooks) :
                    log.hooks[k].hook = "before_upstream_connection"
                    => log.hooks[k].plugin <= MinOf(skips)
            /\ h.server.buffer = <<>> /\ io.ssent = <<>>
            /\ h.exc = "" /\ h.status # "raised"



\* C29: after a CONNECT request, with TLS interception configured the client
\* side is never TLS-wrapped without the server side, and once the client
\* stream has been read to the end of its k-th request after the CONNECT (which
\* was read on its own, the requests coming after the TLS handshake) on a
\* running connection, k requests have been queued upstream by on_client_data,
\* the k-th being that request rebuilt, after every sub-plugin's
\* handle_client_request was called with it; without interception no parser is
\* fed a byte read after the CONNECT request completed.
C29_InterceptedRequestsParsedAndForwarded ==
    LET ClientRequest(k) == parse(HttpParser(REQUEST_PARSER), config.client[k])
    IN
    (/\ log.complete_at # <<>>
     /\ h.request.method = CONNECT)
    => /\ h.client.tls => (h.server.tls /\ config.tls_interception)
       /\ ~config.tls_interception =>
              (log.fed = <<<<1, log.complete_at[1]>>>> /\ h.pipeline_request = <<>>)
       /\ (/\ h.client.tls /\ h.status = "running"
           /\ log.complete_at[1] = Len(config.client[1])) =>
              \A k \in 1..(Len(config.client) - 1) :
                  io.cpos >= Len(Concat(SubSeq(config.client, 1, k + 1))) =>
                      /\ Len(log.forwarded) >= k
                      /\ log.forwarded[k].by = "on_client_data"
                      /\ log.forwarded[k].pkt = build(ClientRequest(k + 1), <<>>)
                      /\ \A i \in 1..Len(config.plugins) :
                             \E c \in 1..Len(log.hooks) :
                                 log.hooks[c] = [plugin |-> i, hook |-> "handle_client_request",
                                                 path |-> ClientRequest(k + 1).path]



\* C30: build of a frame whose payload length is L succeeds and writes, after
\* the first byte, L in 7 bits when L < 126, the marker 126 and L in 16 bits
\* big-endian when 126 <= L < 65536, and the marker 127 and L in 64 bits
\* big-endian from 65536 on (the mask bit being the top bit of the length byte).
C30_BuildEncodesEveryLength ==
    (fn.op = "length" /\ fn.done) =>
        LET L == fn.frame.payload_length[1]
            mbit == IF fn.frame.masked THEN 128 ELSE 0
        IN  /\ fn.exc = "ok"
            /\ Len(fn.raw) >= 2
            /\ SubSeq(fn.raw, 2, Len(fn.raw)) =
                   IF L < 126 THEN <<mbit + L>>
                   ELSE IF L < 65536 THEN <<mbit + 126>> \o pack(L, 2)
                   ELSE <<mbit + 127>> \o pack(L, 8)



----------------------------------------------------------------------------
(* The local web server: ProtocolHandler with HttpWebServerPlugin *)

\* httpProtocolTypes
HTTP == 1
WEBSOCKET == 3

\* HttpWebServerPlugin.DEFAULT_404_RESPONSE
DEFAULT_404_RESPONSE ==
    build_http_response(404, <<"N", "O", "T", " ", "F", "O", "U", "N", "D">>,
        <<<<<<"S", "e", "r", "v", "e", "r">>, PROXY_AGENT_HEADER_VALUE>>, <<<<"C", "o", "n", "n", "e", "c", "t", "i", "o", "n">>, <<"c", "l", "o", "s", "e">>>>>>, None)

\* HttpWebServerPlugin.DEFAULT_501_RESPONSE
DEFAULT_501_RESPONSE ==
    build_http_response(501, <<"N", "O", "T", " ", "I", "M", "P", "L", "E", "M", "E", "N", "T", "E", "D">>,
        <<<<<<"S", "e", "r", "v", "e", "r">>, PROXY_AGENT_HEADER_VALUE>>, <<<<"C", "o", "n", "n", "e", "c", "t", "i", "o", "n">>, <<"c", "l", "o", "s", "e">>>>>>, None)

\* WebsocketFrame.key_to_accept: the base64 text of the SHA-1 digest of
\* key + GUID, kept as a term over the key (the digest is not computed)
key_to_accept(key) == <<"s", "h", "a", "1", "(">> \o key \o <<"+", "G", "U", "I", "D", ")">>

\* build_websocket_handshake_response
build_websocket_handshake_response(accept) ==
    build_http_response(101, <<"S", "w", "i", "t", "c", "h", "i", "n", "g", " ", "P", "r", "o", "t", "o", "c",
            "o", "l", "s">>,
        <<<<<<"U", "p", "g", "r", "a", "d", "e">>, <<"w", "e", "b", "s", "o", "c", "k", "e", "t">>>>, <<<<"C", "o", "n", "n", "e", "c", "t", "i", "o", "n">>, <<"U", "p", "g", "r", "a", "d", "e">>>>,
          <<<<"S", "e", "c", "-", "W", "e", "b", "S", "o", "c", "k", "e", "t", "-", "A", "c",
            "c", "e", "p", "t">>, accept>>>>, None)

\* A frame as a client writes it: fin set, the payload masked with the mask
\* <<1, 2, 3, 255>> when masked; payload_length 0 is set for an empty payload
ClientFrame(opcode, masked, data) ==
    WebsocketFrame_build([WebsocketFrame EXCEPT !.fin = TRUE, !.opcode = opcode,
                              !.masked = masked, !.data = data,
                              !.payload_length = IF data = <<>> THEN <<0>> ELSE NoInt],
                         <<1, 2, 3, 255>>).raw

\* The local connections explored.  routes has, for each class of
\* config.plugins[b'HttpWebServerBasePlugin'] in order, the (protocol, path)
\* pairs of its routes(), one entry per pair; client has the HTTP messages the
\* client sends and frames the WebSocket frames it sends after the handshake
\* response.  Encryption and the static server are not enabled.
WebScenarios == <<
    [routes |-> <<[plugin |-> "ws", protocol |-> WEBSOCKET, path |-> <<"/", "w">>]>>,
     client |-> <<<<"G", "E", "T", " ", "/", "w", " ", "H", "T", "T", "P", "/", "1", ".", "1",
                "\r", "\n", "H", "o", "s", "t", ":", " ", "h", "\r", "\n", "C", "o", "n",
                "n", "e", "c", "t", "i", "o", "n", ":", " ", "U", "p", "g", "r", "a", "d",
                "e", "\r", "\n", "U", "p", "g", "r", "a", "d", "e", ":", " ", "w", "e",
                "b", "s", "o", "c", "k", "e", "t", "\r", "\n", "S", "e", "c", "-", "W",
                "e", "b", "S", "o", "c", "k", "e", "t", "-", "K", "e", "y", ":", " ", "k",
                "\r", "\n", "\r", "\n">>>>,
     frames |-> <<ClientFrame(1, TRUE, <<97>>), ClientFrame(2, FALSE, <<0, 255>>)>>],
    [routes |-> <<[plugin |-> "ws", protocol |-> WEBSOCKET, path |-> <<"/", "w">>]>>,
     client |-> <<<<"G", "E", "T", " ", "/", "w", " ", "H", "T", "T", "P", "/", "1", ".", "1",
                "\r", "\n", "H", "o", "s", "t", ":", " ", "h", "\r", "\n", "\r", "\n">>>>,
     frames |-> <<>>],
    [routes |-> <<[plugin |-> "ws", protocol |-> WEBSOCKET, path |-> <<"/", "w">>]>>,
     client |-> <<<<"G", "E", "T", " ", "/", "w", " ", "H", "T", "T", "P", "/", "1", ".", "1",
                "\r", "\n", "H", "o", "s", "t", ":", " ", "h", "\r", "\n", "C", "o", "n",
                "n", "e", "c", "t", "i", "o", "n", ":", " ", "U", "p", "g", "r", "a", "d",
                "e", "\r", "\n", "U", "p", "g", "r", "a", "d", "e", ":", " ", "h", "2",
                "c", "\r", "\n", "\r", "\n">>>>,
     frames |-> <<>>],
    [routes |-> <<[plugin |-> "ws", protocol |-> WEBSOCKET, path |-> <<"/", "w">>],
                  [plugin |-> "page", protocol |-> HTTP, path |-> <<"/", "w">>]>>,
     client |-> <<<<"G", "E", "T", " ", "/", "w", " ", "H", "T", "T", "P", "/", "1", ".", "1",
                "\r", "\n", "H", "o", "s", "t", ":", " ", "h", "\r", "\n", "C", "o", "n",
                "n", "e", "c", "t", "i", "o", "n", ":", " ", "k", "e", "e", "p", "-", "a",
                "l", "i", "v", "e", "\r", "\n", "\r", "\n">>>>,
     frames |-> <<>>],
    [routes |-> <<[plugin |-> "page", protocol |-> HTTP, path |-> <<"/", "a">>],
                  [plugin |-> "other", protocol |-> HTTP, path |-> <<"/", "b">>]>>,
     client |-> <<<<"G", "E", "T", " ", "/", "a", " ", "H", "T", "T", "P", "/", "1", ".", "1",
                "\r", "\n", "H", "o", "s", "t", ":", " ", "h", "\r", "\n", "\r", "\n">>,
                  <<"G", "E", "T", " ", "/", "b", " ", "H", "T", "T", "P", "/", "1", ".", "1",
                "\r", "\n", "H", "o", "s", "t", ":", " ", "h", "\r", "\n", "C", "o", "n",
                "n", "e", "c", "t", "i", "o", "n", ":", " ", "k", "e", "e", "p", "-", "a",
                "l", "i", "v", "e", "\r", "\n", "\r", "\n">>,
                  <<"G", "E", "T", " ", "/", "c", " ", "H", "T", "T", "P", "/", "1", ".", "1",
                "\r", "\n", "H", "o", "s", "t", ":", " ", "h", "\r", "\n", "C", "o", "n",
                "n", "e", "c", "t", "i", "o", "n", ":", " ", "c", "l", "o", "s", "e", "\r",
                "\n", "\r", "\n">>,
                  <<"G", "E", "T", " ", "/", "d", " ", "H", "T", "T", "P", "/", "1", ".", "1",
                "\r", "\n", "H", "o", "s", "t", ":", " ", "h", "\r", "\n", "\r", "\n">>>>,
     frames |-> <<>>],
    [routes |-> <<[plugin |-> "ws", protocol |-> WEBSOCKET, path |-> <<"/", "w">>]>>,
     client |-> <<<<"G", "E", "T", " ", "/", "w", " ", "H", "T", "T", "P", "/", "1", ".", "1",
                "\r", "\n", "H", "o", "s", "t", ":", " ", "h", "\r", "\n", "C", "o", "n",
                "n", "e", "c", "t", "i", "o", "n", ":", " ", "U", "p", "g", "r", "a", "d",
                "e", "\r", "\n", "U", "p", "g", "r", "a", "d", "e", ":", " ", "w", "e",
                "b", "s", "o", "c", "k", "e", "t", "\r", "\n", "S", "e", "c", "-", "W",
                "e", "b", "S", "o", "c", "k", "e", "t", "-", "K", "e", "y", ":", " ", "k",
                "\r", "\n", "\r", "\n">>>>,
     frames |-> <<ClientFrame(1, TRUE, <<97>>), ClientFrame(9, TRUE, <<>>),
                  ClientFrame(1, FALSE, <<98>>)>>],
    [routes |-> <<[plugin |-> "page", protocol |-> HTTP, path |-> <<"/", "a">>]>>,
     client |-> <<<<"G", "E", "T", " ", "/", "a", " ", "H", "T", "T", "P", "/", "1", ".", "1",
                "\r", "\n", "H", "o", "s", "t", ":", " ", "h", "\r", "\n", "C", "o", "n",
                "n", "e", "c", "t", "i", "o", "n", ":", " ", "c", "l", "o", "s", "e", "\r",
                "\n", "\r", "\n">>,
                  <<"G", "E", "T", " ", "/", "b", " ", "H", "T", "T", "P", "/", "1", ".", "1",
                "\r", "\n", "H", "o", "s", "t", ":", " ", "h", "\r", "\n", "C", "o", "n",
                "n", "e", "c", "t", "i", "o", "n", ":", " ", "k", "e", "e", "p", "-", "a",
                "l", "i", "v", "e", "\r", "\n", "\r", "\n">>>>,
     frames |-> <<>>],
    [routes |-> <<>>,
     client |-> <<<<"G", "E", "T", " ", "/", "a", " ", "H", "T", "T", "P", "/", "1", ".", "1",
                "\r", "\n", "H", "o", "s", "t", ":", " ", "h", "\r", "\n", "\r", "\n">>>>,
     frames |-> <<>>] >>

web == WebScenarios[scen]

\* self.routes[protocol].get(path) after HttpWebServerPlugin.__init__: the
\* plugin registered last for the pair, "" for none
RouteFor(protocol, path) ==
    Let({i \in 1..Len(web.routes) : web.routes[i].protocol = protocol
                                    /\ web.routes[i].path = path}, LAMBDA S :
        IF S = {} THEN "" ELSE web.routes[CHOOSE i \in S : \A j \in S : j <= i].plugin)

\* ProtocolHandler.__init__ and HttpWebServerPlugin.__init__
NewLocalHandler ==
    [request |-> HttpParser(REQUEST_PARSER), pipeline_request |-> <<>>,
     switched_protocol |-> NoInt, route |-> "",
     client |-> [buffer |-> <<>>, closed |-> FALSE],
     status |-> "running", exc |-> ""]

\* HttpParser.is_http_1_1_keep_alive
is_http_1_1_keep_alive(p) ==
    /\ p.version = HTTP_1_1
    /\ \/ ~has_header(p, <<"C", "o", "n", "n", "e", "c", "t", "i", "o", "n">>)
       \/ Lower(header(p, <<"C", "o", "n", "n", "e", "c", "t", "i", "o", "n">>)) = <<"k", "e", "e", "p", "-", "a", "l", "i", "v", "e">>

\* try_upgrade that answers every request for a WebSocket route with the
\* handshake response, whatever its headers
try_upgrade_always(w) ==
    [w |-> [w EXCEPT !.h.client = queue(@, build_websocket_handshake_response(
                                             key_to_accept(<<>>))),
                     !.h.switched_protocol = <<WEBSOCKET>>],
     teardown |-> FALSE, exc |-> ""]

\* HttpWebServerPlugin.try_upgrade
try_upgrade(w) ==
    IF /\ has_header(w.h.request, <<"c", "o", "n", "n", "e", "c", "t", "i", "o", "n">>)
       /\ Lower(header(w.h.request, <<"c", "o", "n", "n", "e", "c", "t", "i", "o", "n">>)) = <<"u", "p", "g", "r", "a", "d", "e">>
    THEN IF /\ has_header(w.h.request, <<"u", "p", "g", "r", "a", "d", "e">>)
            /\ Lower(header(w.h.request, <<"u", "p", "g", "r", "a", "d", "e">>)) = <<"w", "e", "b", "s", "o", "c", "k", "e", "t">>
         THEN IF ~has_header(w.h.request, <<"S", "e", "c", "-", "W", "e", "b", "S", "o", "c", "k", "e", "t", "-", "K", "e",
            "y">>)
              THEN [w |-> w, teardown |-> FALSE, exc |-> "KeyError"]
              ELSE [w |-> [w EXCEPT
                             !.h.client = queue(@, build_websocket_handshake_response(
                                 key_to_accept(header(w.h.request, <<"S", "e", "c", "-", "W", "e", "b", "S", "o", "c", "k", "e", "t", "-", "K", "e",
            "y">>)))),
                             !.h.switched_protocol = <<WEBSOCKET>>],
                    teardown |-> FALSE, exc |-> ""]
         ELSE [w |-> [w EXCEPT !.h.client = queue(@, DEFAULT_501_RESPONSE)],
               teardown |-> TRUE, exc |-> ""]
    ELSE [w |-> w, teardown |-> FALSE, exc |-> ""]

\* HttpWebServerPlugin.on_request_complete.  log.opened has the routes whose
\* on_websocket_open was called, log.handled the handle_request calls with the
\* route called, the path of the request passed and the bytes its parser was fed
HttpWebServerPlugin_on_request_complete(w) ==
    IF has_upstream_server(w.h.request) THEN [w |-> w, ret |-> "False", exc |-> ""]
    ELSE
    Let(RouteFor(WEBSOCKET, w.h.request.path), LAMBDA ws :
    Let(IF ws # "" THEN try_upgrade([w EXCEPT !.h.route = ws])
        ELSE [w |-> w, teardown |-> FALSE, exc |-> ""], LAMBDA u :
        IF u.exc # "" THEN [w |-> u.w, ret |-> "False", exc |-> u.exc]
        ELSE IF u.teardown THEN [w |-> u.w, ret |-> "True", exc |-> ""]
        ELSE IF ws # "" /\ u.w.h.switched_protocol # NoInt
        THEN [w |-> [u.w EXCEPT !.log.opened = Append(@, ws)], ret |-> "False", exc |-> ""]
        ELSE
        Let(RouteFor(HTTP, w.h.request.path), LAMBDA r :
            IF r # ""
            THEN [w |-> [u.w EXCEPT !.h.route = r,
                                    !.log.handled = Append(@, [route |-> r,
                                        path |-> w.h.request.path,
                                        raw |-> w.h.request.bytes])],
                  ret |-> "False", exc |-> ""]
            ELSE [w |-> [u.w EXCEPT !.h.client = queue(@, DEFAULT_404_RESPONSE)],
                  ret |-> "True", exc |-> ""])))

\* The while loop of HttpWebServerPlugin.on_client_data over the bytes read on
\* a switched connection: the on_websocket_message calls made, each with the
\* frame passed, and the exception that left frame.parse
RECURSIVE websocket_messages(_, _)
websocket_messages(remaining, route) ==
    IF remaining = <<>> THEN [messages |-> <<>>, exc |-> ""]
    ELSE Let(WebsocketFrame_parse(WebsocketFrame, remaining), LAMBDA p :
             IF p.exc # "ok" THEN [messages |-> <<>>, exc |-> p.exc]
             ELSE Let(websocket_messages(p.tail, route), LAMBDA rest :
                      [messages |-> (IF route # "" THEN <<[route |-> route, frame |-> p.f]>>
                                     ELSE <<>>) \o rest.messages,
                       exc |-> rest.exc]))

\* HttpWebServerPlugin.on_client_data.  ret is what it returns (None or raw),
\* exc the exception that left it, "" for none.
HttpWebServerPlugin_on_client_data(w, raw) ==
    IF w.h.switched_protocol = <<WEBSOCKET>>
    THEN Let(websocket_messages(raw, RouteFor(WEBSOCKET, w.h.request.path)), LAMBDA m :
             [w |-> [w EXCEPT !.log.messages = @ \o m.messages], ret |-> None, exc |-> m.exc])
    ELSE IF /\ w.h.request.state = COMPLETE
            /\ is_http_1_1_keep_alive(w.h.request)
            /\ w.h.route # ""
    THEN Let(parse(IF w.h.pipeline_request = <<>> THEN HttpParser(REQUEST_PARSER)
                   ELSE w.h.pipeline_request[1], raw), LAMBDA p1 :
         Let([w EXCEPT !.h.pipeline_request = <<p1>>], LAMBDA w1 :
             IF p1.exc # "ok" THEN [w |-> w1, ret |-> raw, exc |-> p1.exc]
             ELSE IF p1.state # COMPLETE THEN [w |-> w1, ret |-> raw, exc |-> ""]
             ELSE
             Let([w1 EXCEPT !.log.handled = Append(@, [route |-> w.h.route, path |-> p1.path,
                                                       raw |-> p1.bytes])], LAMBDA w2 :
                 IF ~is_http_1_1_keep_alive(p1)
                 THEN [w |-> w2, ret |-> raw, exc |-> "ProtocolException"]
                 ELSE [w |-> [w2 EXCEPT !.h.pipeline_request = <<>>], ret |-> raw, exc |-> ""])))
    ELSE [w |-> w, ret |-> raw, exc |-> ""]

\* ProtocolHandler.handle_readables on a local connection (no request names an
\* upstream, so HttpProxyPlugin.on_client_data returns raw and its
\* on_request_complete returns False).  ev.kind is "data" (recv returns the
\* HTTP messages up to offset ev.n), "frames" (recv returns the frames up to
\* offset ev.n) or "eof".  log.fed counts the bytes given to the request parser.
handle_readables_local(w, ev) ==
    IF ev.kind = "eof"
    THEN [w |-> [w EXCEPT !.h.client.closed = TRUE], teardown |-> TRUE, exc |-> ""]
    ELSE
    Let(IF ev.kind = "frames" THEN SubSeq(Concat(web.frames), w.io.fpos + 1, ev.n)
        ELSE SubSeq(Concat(web.client), w.io.cpos + 1, ev.n), LAMBDA raw :
    Let(IF ev.kind = "frames" THEN [w EXCEPT !.io.fpos = ev.n]
        ELSE [w EXCEPT !.io.cpos = ev.n], LAMBDA w0 :
    Let(HttpWebServerPlugin_on_client_data(w0, raw), LAMBDA d :
        IF d.exc = "ProtocolException" THEN [w |-> d.w, teardown |-> TRUE, exc |-> ""]
        ELSE IF d.exc # "" \/ d.ret = None \/ d.w.h.request.state = COMPLETE
        THEN [w |-> d.w, teardown |-> FALSE, exc |-> d.exc]
        ELSE
        Let(parse(d.w.h.request, raw), LAMBDA request :
        Let([d.w EXCEPT !.h.request = request, !.log.fed = @ + Len(raw)], LAMBDA w1 :
            IF request.exc # "ok" \/ request.state # COMPLETE
            THEN [w |-> w1, teardown |-> FALSE,
                  exc |-> IF request.exc = "ok" THEN "" ELSE request.exc]
            ELSE Let(HttpWebServerPlugin_on_request_complete(w1), LAMBDA c :
                     [w |-> c.w, teardown |-> c.exc = "" /\ c.ret = "True",
                      exc |-> c.exc]))))))

\* What select may report for the client socket of a local connection: writable
\* with the whole buffer taken, readable with HTTP bytes (before the protocol
\* switch), with frame bytes up to any offset (after it), or with no bytes
LocalEvents(w) ==
    {[kind |-> "eof", n |-> 0]}
    \cup (IF w.h.client.buffer # <<>> THEN {[kind |-> "send", n |-> 0]} ELSE {})
    \cup (IF w.h.switched_protocol = NoInt
          THEN {[kind |-> "data", n |-> c] : c \in {c \in Cuts(web.client) : c > w.io.cpos}}
          ELSE {[kind |-> "frames", n |-> c] :
                    c \in (w.io.fpos + 1)..Len(Concat(web.frames))})

\* A local connection accepted
LocalInit ==
    /\ scen \in 1..Len(WebScenarios)
    /\ h = NewLocalHandler
    /\ io = [cpos |-> 0, fpos |-> 0, csent |-> <<>>]
    /\ log = [handled |-> <<>>, opened |-> <<>>, messages |-> <<>>, closed |-> <<>>,
              fed |-> 0]
    /\ pstream = 1 /\ pfed = 0 /\ pparser = HttpParser(REQUEST_PARSER)
    /\ mode = "" /\ works = <<>> /\ worker = "" /\ pending = <<>>
    /\ acc = <<>> /\ tl = <<>> /\ fn = <<>> /\ gen = <<>>

\* One iteration of ProtocolHandler.run on a local connection: handle_writables
\* flushes the client buffer, handle_readables reads
run_once_local ==
    /\ h.status = "running"
    /\ \E ev \in LocalEvents([h |-> h, io |-> io, log |-> log]) :
        IF ev.kind = "send"
        THEN /\ h' = [h EXCEPT !.client.buffer = <<>>]
             /\ io' = [io EXCEPT !.csent = @ \o h.client.buffer]
             /\ log' = log
        ELSE \E r \in {handle_readables_local([h |-> h, io |-> io, log |-> log], ev)} :
                /\ h' = [r.w.h EXCEPT !.status = IF r.exc = "hang" THEN "hung"
                                                 ELSE IF r.exc # "" THEN "raised"
                                                 ELSE IF r.teardown THEN "teardown" ELSE @,
                                      !.exc = r.exc]
                /\ io' = r.w.io
                /\ log' = r.w.log
    /\ UNCHANGED <<scen, pvars, wvars, xvars>>

\* HttpWebServerPlugin.on_client_connection_close: log.closed has the routes
\* whose on_websocket_close was called
HttpWebServerPlugin_on_client_connection_close(w) ==
    IF has_upstream_server(w.h.request) \/ w.h.switched_protocol = NoInt THEN w
    ELSE Let(RouteFor(WEBSOCKET, w.h.request.path), LAMBDA r :
             IF r = "" THEN w ELSE [w EXCEPT !.log.closed = Append(@, r)])

\* ProtocolHandler.shutdown on a local connection: flush (the buffer is sent,
\* or send raises BrokenPipeError), the close hooks, the socket closed
shutdown_local ==
    /\ h.status \in {"teardown", "raised"}
    /\ \E sent \in {h.client.buffer, <<>>} :
        \E w \in {HttpWebServerPlugin_on_client_connection_close(
                      [h |-> [h EXCEPT !.client.buffer = SubSeq(@, Len(sent) + 1, Len(@)),
                                       !.status = "closed"],
                       io |-> [io EXCEPT !.csent = @ \o sent],
                       log |-> log])} :
            h' = w.h /\ io' = w.io /\ log' = w.log
    /\ UNCHANGED <<scen, pvars, wvars, xvars>>

LocalNext == run_once_local \/ shutdown_local

LocalSpec == LocalInit /\ [][LocalNext]_vars



\* The upgrade precondition of try_upgrade on the request of the connection
UpgradeRequested ==
    /\ has_header(h.request, <<"C", "o", "n", "n", "e", "c", "t", "i", "o", "n">>)
    /\ Lower(header(h.request, <<"C", "o", "n", "n", "e", "c", "t", "i", "o", "n">>)) = <<"u", "p", "g", "r", "a", "d", "e">>
    /\ has_header(h.request, <<"U", "p", "g", "r", "a", "d", "e">>)
    /\ Lower(header(h.request, <<"U", "p", "g", "r", "a", "d", "e">>)) = <<"w", "e", "b", "s", "o", "c", "k", "e", "t">>

C23_NoUpgradeGets501 ==
    (/\ h.request.state = COMPLETE
     /\ ~has_upstream_server(h.request)
     /\ RouteFor(WEBSOCKET, h.request.path) # ""
     /\ ~UpgradeRequested)
    => /\ io.csent \o h.client.buffer = DEFAULT_501_RESPONSE
       /\ h.status \in {"teardown", "closed"}
       /\ log.opened = <<>>
       /\ log.handled = <<>>



\* C24: on a connection switched to WebSocket no exception has left the
\* handler, the HTTP parsers were fed the request only, on_websocket_message
\* was called once for each frame read to its end and for no other, in order,
\* with the fields of that frame, and on_websocket_close was called once when
\* the connection has been closed and not before.
C24_EveryFrameDeliveredOnce ==
    LET route == RouteFor(WEBSOCKET, h.request.path)
        End(k) == Len(Concat(SubSeq(web.frames, 1, k)))
        read == {k \in 1..Len(web.frames) : io.fpos >= End(k)}
    IN  h.switched_protocol = <<WEBSOCKET>> =>
            /\ h.exc = "" /\ h.status \notin {"raised", "hung"}
            /\ log.fed = io.cpos /\ h.pipeline_request = <<>>
            /\ Len(log.messages) = Cardinality(read)
            /\ \A k \in read :
                   log.messages[k] = [route |-> route,
                                      frame |-> WebsocketFrame_parse(WebsocketFrame,
                                                                     web.frames[k]).f]
            /\ log.closed = IF h.status = "closed" THEN <<route>> ELSE <<>>



\* C25: on a local connection whose first request was HTTP/1.1 keep-alive and
\* was handled by a route, every later request of the client read to its end,
\* up to and including the first one that is not keep-alive, was passed once
\* and in order to handle_request of that same route, parsed by a parser that
\* was fed the bytes of this request only; no later request was passed; and
\* the connection is torn down once a request that is not keep-alive was passed.
C25_KeepAliveRequestsDispatched ==
    LET End(k) == Len(Concat(SubSeq(web.client, 1, k)))
        Request(k) == parse(HttpParser(REQUEST_PARSER), web.client[k])
        closing == {k \in 2..Len(web.client) : ~is_http_1_1_keep_alive(Request(k))}
        last == IF closing = {} THEN Len(web.client) ELSE MinOf(closing)
        read == {k \in 1..last : io.cpos >= End(k)}
    IN  (/\ log.handled # <<>>
         /\ h.request.state = COMPLETE
         /\ is_http_1_1_keep_alive(h.request)
         /\ h.status \notin {"raised", "hung"}) =>
            /\ Len(log.handled) = Cardinality(read)
            /\ \A k \in read :
                   log.handled[k] = [route |-> log.handled[1].route,
                                     path |-> Request(k).path,
                                     raw |-> web.client[k]]
            /\ (closing # {} /\ last \in read) => h.status \in {"teardown", "closed"}


----------------------------------------------------------------------------
(* The parser's life cycle *)

\* C39: no parse call moves the state of an HttpParser backwards in the order
\* INITIALIZED, LINE_RCVD, RCVING_HEADERS, HEADERS_COMPLETE, RCVING_BODY,
\* COMPLETE, and a parse call on a parser in state COMPLETE leaves the state,
\* method, url, code, reason, headers and body as they were.
C39_StateNeverBackCompleteAbsorbing ==
    [][/\ pparser'.state >= pparser.state
       /\ pparser.state = COMPLETE => ParserFields(pparser') = ParserFields(pparser)]_vars

\* C39 witness: parse has been called again on a parser that an earlier call
\* had left in state COMPLETE, with bytes of a following message
C39_ParsedAgainAfterComplete ==
    /\ log.complete_at > 0
    /\ log.calls > log.complete_at
    /\ pparser.state = COMPLETE
    /\ pparser.buffer # <<>>


----------------------------------------------------------------------------
(* The chunk parser fed piece by piece *)

\* C35: for every buffer B and chunk size k >= 1, once the last piece of
\* to_chunks(B, k) has been fed to a ChunkParser, in whatever non-empty
\* consecutive pieces, one per parse call, the parser is in state COMPLETE and
\* its body is B.
C35_AnySplitOfChunksParsed ==
    (fn.op = "feed" /\ fn.pos = Len(to_chunks(fn.raw, fn.chunk_size))) =>
        /\ fn.cp.exc = "ok"
        /\ fn.cp.state = CHUNK_COMPLETE
        /\ fn.cp.body = fn.raw


----------------------------------------------------------------------------
(* What reaches the upstream and the client of a proxy connection *)

\* C36: on a connection with auth_code configured, every request queued for
\* the upstream, by on_request_complete or by on_client_data, has no
\* proxy-authorization and no proxy-connection header, has the header
\* Via: 1.1 proxy.py v1.2.0 and has no header listed in disable_headers.
C36_NoProxyHeadersUpstream ==
    (config.auth_code # None) =>
        \A k \in 1..Len(log.forwarded) :
            LET f == log.forwarded[k]
                dropped == {<<"p", "r", "o", "x", "y", "-", "a", "u", "t", "h", "o", "r", "i", "z",
                    "a", "t", "i", "o", "n">>,
                            <<"p", "r", "o", "x", "y", "-", "c", "o", "n", "n", "e", "c", "t", "i",
                    "o", "n">>}
                           \cup {config.disable_headers[j] : j \in 1..Len(config.disable_headers)}
            IN  /\ \A i \in 1..Len(f.headers) : Lower(f.headers[i][1]) \notin dropped
                /\ \E i \in 1..Len(f.headers) :
                       f.headers[i] = <<<<"V", "i", "a">>, <<"1", ".", "1", " ">> \o PROXY_AGENT_HEADER_VALUE>>

\* C37: whenever the packet 'HTTP/1.1 200 Connection established' has been
\* queued for the client, a connection to the upstream had been opened; it is
\* not queued on a connection whose sub-plugin returned None from
\* before_upstream_connection.
C37_EstablishedOnlyWhenConnected ==
    LET out == io.csent \o h.client.buffer
    IN  (h.request.method = CONNECT /\ StartsWith(out, PROXY_TUNNEL_ESTABLISHED_RESPONSE_PKT)) =>
            /\ h.server.exists /\ h.server.connected
            /\ \A i \in 1..Len(config.plugins) : config.plugins[i] # "skip"

\* C40: on a running connection without CONNECT and without sub-plugins, whose
\* client sends requests for an upstream that accepts the connection, once
\* all bytes of the client were read, in whatever reads, as many requests
\* were queued for the upstream as the client sent, in the client's order.
C40_EveryPipelinedRequestForwarded ==
    LET Request(k) == parse(HttpParser(REQUEST_PARSER), config.client[k])
    IN  (/\ config.plugins = <<>> /\ config.connect = "ok" /\ config.auth_code = None
         /\ \A k \in 1..Len(config.client) :
                /\ Request(k).state = COMPLETE /\ Request(k).method # CONNECT
                /\ has_upstream_server(Request(k))
         /\ io.cpos = Len(Concat(config.client))
         /\ h.status = "running") =>
            /\ Len(log.forwarded) = Len(config.client)
            /\ \A k \in 1..Len(config.client) : log.forwarded[k].path = Request(k).path


\* C38: the bytes given to the first core plugin's on_response_chunk, over all
\* calls in order, are the bytes queued for the client so far or a first part
\* of them (no byte twice, none out of order), and, on a connection without
\* TLS interception, every byte the client socket has accepted is among them.
C38_QueuedBytesPresentedOnce ==
    /\ StartsWith(io.csent \o h.client.buffer, log.presented)
    /\ ~config.tls_interception => StartsWith(log.presented, io.csent)

\* ---------------------------------------------------------------------------
\* The core plugins' hooks on a read from the client
\* ---------------------------------------------------------------------------

\* C32: the bytes of a read from the client go to the core plugins'
\* on_client_data from left to right, each plugin given what the one before it
\* returned; the plugin that returns None is the last one called for that read
\* and then the bytes are not fed to the handler's request parser; the request
\* parser is only ever fed while it is not COMPLETE, and no plugin's
\* on_request_complete is called twice on a connection
C32_ClientDataChainAndSingleCompletion ==
    /\ \A k \in 1..Len(log.data) :
          /\ log.data[k].plugin = k
          /\ log.data[k].raw = IF k = 1 THEN log.read ELSE log.data[k - 1].ret
          /\ log.data[k].ret = None => k = Len(log.data) /\ ~log.parse.called
    /\ (log.read # <<>> /\ h.exc = "" /\ Len(log.data) < Len(ProtocolHandlerPlugins)) =>
          /\ log.data # <<>>
          /\ log.data[Len(log.data)].ret = None
    /\ log.parse.called =>
          /\ log.parse.before # COMPLETE
          /\ Len(log.data) = Len(ProtocolHandlerPlugins)
          /\ log.parse.raw = log.data[Len(log.data)].ret
    /\ \A i, j \in 1..Len(log.completes) :
          log.completes[i].plugin = log.completes[j].plugin => i = j

\* A plugin in the middle of the list returned None for a read: the plugins
\* after it were not called and the parser was not fed
C32_ChainCutByNone ==
    /\ Len(log.data) >= 2 /\ Len(log.data) < Len(ProtocolHandlerPlugins)
    /\ log.data[Len(log.data)].ret = None
    /\ ~log.parse.called /\ h.request.state = INITIALIZED

\* C33: once a plugin's on_request_complete has returned the TLS-wrapped
\* socket, the handler, every core plugin and every proxy sub-plugin have had
\* their client connection set to it, none is left with the plain socket; and
\* a plugin that returned True from on_request_complete is the last one whose
\* on_request_complete was called, and the handler tears the connection down
C33_UpgradedSocketEverywhereTeardownStops ==
    /\ (\E k \in 1..Len(log.completes) : log.completes[k].ret = "socket") =>
          /\ h.client.tls
          /\ h.conn.handler
          /\ \A i \in 1..Len(ProtocolHandlerPlugins) : h.conn.core[i]
          /\ \A i \in 1..Len(config.plugins) : h.conn.sub[i]
    /\ \A k \in 1..Len(log.completes) :
          log.completes[k].ret = "True" =>
              /\ k = Len(log.completes)
              /\ h.status \in {"teardown", "closed"}

\* An intercepted CONNECT on a connection with a second core plugin and a
\* proxy sub-plugin: on_request_complete returned the wrapped socket
C33_SocketReturnedWithOtherPlugins ==
    /\ Len(ProtocolHandlerPlugins) >= 2 /\ Len(config.plugins) >= 1
    /\ \E k \in 1..Len(log.completes) : log.completes[k].ret = "socket"
    /\ Len(log.completes) = Len(ProtocolHandlerPlugins)

\* ---------------------------------------------------------------------------
\* HttpProxyPlugin.generate_upstream_certificate in the threads of one process
\* ---------------------------------------------------------------------------

MaxInstances == 3
Instances == 1..MaxInstances
\* The hosts of the CONNECT requests being intercepted
CertHosts == {"h", "g"}

\* gen.lock is HttpProxyPlugin.lock, a class attribute and so one lock for all
\* instances of the process: 0 when free, else the instance that holds it.
\* gen.file[x] is what is at generated_cert_file_path for host x: "absent",
\* "leaf" (a signed certificate) or "empty" (what openssl x509 leaves at -out
\* when it fails).  gen.child[i] is the sign_cert process that instance i
\* started; gen.started[x] counts the sign_cert processes started for host x.
\* gen.early has the instances that were handed a path while a sign_cert
\* process for that host had not exited.
CertInit ==
    /\ gen \in {[host |-> hs, pc |-> [i \in Instances |-> "call"], lock |-> 0,
                 file |-> f, existed |-> {x \in CertHosts : f[x] = "leaf"},
                 child |-> [i \in Instances |-> "none"],
                 started |-> [x \in CertHosts |-> 0], early |-> {}] :
                    hs \in [Instances -> CertHosts],
                    f \in [CertHosts -> {"absent", "leaf"}]}
    /\ acc = <<>> /\ tl = <<>> /\ fn = <<>>
    /\ scen = 0 /\ h = <<>> /\ io = <<>> /\ log = <<>>
    /\ mode = "" /\ works = <<>> /\ worker = "" /\ pending = <<>>
    /\ pstream = 1 /\ pfed = 0 /\ pparser = HttpParser(REQUEST_PARSER)

\* "with self.lock:" is entered
lock_acquire(i) ==
    /\ gen.pc[i] = "call" /\ gen.lock = 0
    /\ gen' = [gen EXCEPT !.lock = i, !.pc[i] = "isfile"]
    /\ UNCHANGED <<acc, tl, fn, pvars, hvars, wvars>>

\* "if not os.path.isfile(cert_file_path)" and the two Popen calls
isfile_or_popen(i) ==
    /\ gen.pc[i] = "isfile"
    /\ gen' = IF gen.file[gen.host[i]] # "absent"
              THEN [gen EXCEPT !.pc[i] = "leave"]
              ELSE [gen EXCEPT !.pc[i] = "communicate", !.child[i] = "running",
                               !.started[gen.host[i]] = @ + 1]
    /\ UNCHANGED <<acc, tl, fn, pvars, hvars, wvars>>

\* The sign_cert process writes the signed certificate to its -out file
openssl_writes(i) ==
    /\ gen.child[i] = "running"
    /\ gen' = [gen EXCEPT !.child[i] = "written", !.file[gen.host[i]] = "leaf"]
    /\ UNCHANGED <<acc, tl, fn, pvars, hvars, wvars>>

\* The sign_cert process exits after it has written the certificate
openssl_exits(i) ==
    /\ gen.child[i] = "written"
    /\ gen' = [gen EXCEPT !.child[i] = "exited"]
    /\ UNCHANGED <<acc, tl, fn, pvars, hvars, wvars>>

\* The sign_cert process fails (its input or the CA key cannot be read): it
\* exits and leaves an empty -out file
openssl_fails(i) ==
    /\ gen.child[i] = "running"
    /\ gen' = [gen EXCEPT !.child[i] = "failed",
                          !.file[gen.host[i]] = IF @ = "absent" THEN "empty" ELSE @]
    /\ UNCHANGED <<acc, tl, fn, pvars, hvars, wvars>>

\* sign_cert.communicate(timeout=10) returns: the process has exited; its
\* return code is not looked at
communicate(i) ==
    /\ gen.pc[i] = "communicate" /\ gen.child[i] \in {"exited", "failed"}
    /\ gen' = [gen EXCEPT !.pc[i] = "leave"]
    /\ UNCHANGED <<acc, tl, fn, pvars, hvars, wvars>>

\* sign_cert.communicate(timeout=10) raises TimeoutExpired: the process has not
\* exited within 10 seconds and is left running; the exception leaves the with
\* block, which releases the lock, and the method
communicate_timeout(i) ==
    /\ gen.pc[i] = "communicate" /\ gen.child[i] \in {"running", "written"}
    /\ gen' = [gen EXCEPT !.pc[i] = "raised", !.lock = 0]
    /\ UNCHANGED <<acc, tl, fn, pvars, hvars, wvars>>

\* The with block is left and cert_file_path returned to wrap_client
return_cert_file_path(i) ==
    /\ gen.pc[i] = "leave"
    /\ gen' = [gen EXCEPT !.pc[i] = "returned", !.lock = 0,
                          !.early = IF \E j \in Instances :
                                          /\ gen.host[j] = gen.host[i]
                                          /\ gen.child[j] \in {"running", "written"}
                                    THEN @ \cup {i} ELSE @]
    /\ UNCHANGED <<acc, tl, fn, pvars, hvars, wvars>>

\* HttpProxyPlugin.wrap_client: ssl.wrap_socket loads certfile and raises an
\* OSError (ssl.SSLError) unless it holds a certificate
wrap_client(i) ==
    /\ gen.pc[i] = "returned"
    /\ gen' = [gen EXCEPT !.pc[i] = IF gen.file[gen.host[i]] = "leaf" THEN "wrapped"
                                    ELSE "OSError"]
    /\ UNCHANGED <<acc, tl, fn, pvars, hvars, wvars>>

CertNext ==
    \E i \in Instances :
        \/ lock_acquire(i)
        \/ isfile_or_popen(i)
        \/ openssl_writes(i)
        \/ openssl_exits(i)
        \/ openssl_fails(i)
        \/ communicate(i)
        \/ communicate_timeout(i)
        \/ return_cert_file_path(i)
        \/ wrap_client(i)

CertSpec == CertInit /\ [][CertNext]_vars

\* C34: for instances of one process that intercept CONNECT requests, the
\* check for the leaf certificate and its generation are done by one instance
\* at a time; the generation is started at most once for a host, and never for
\* a host whose leaf file existed before; and no instance is handed the path
\* while a generation for that host has not finished
C34_GeneratedOnceUnderLock ==
    /\ \A i, j \in Instances :
          (gen.pc[i] \in {"isfile", "communicate", "leave"} /\
           gen.pc[j] \in {"isfile", "communicate", "leave"}) => i = j
    /\ \A x \in CertHosts :
          /\ gen.started[x] <= 1
          /\ x \in gen.existed => gen.started[x] = 0
    /\ gen.early = {}

\* ---------------------------------------------------------------------------
\* Keyboard interrupt in an Acceptor and its Threadless worker
\* ---------------------------------------------------------------------------

\* C31: after a keyboard interrupt the Acceptor accepts no more and its
\* listening socket is closed only once it has stopped accepting, and when the
\* Threadless worker has left its run no handler is left in self.works: every
\* handler it owned went through shutdown (close hooks of the plugins, client
\* socket closed) before the worker exited
C31_InterruptShutsDownOwnedHandlers ==
    /\ tl.sock = "closed" => ~tl.accepting
    /\ ~tl.running => tl.works = <<>>

====
